---- MODULE Spec2Model ----
(***************************************************************************)
(* A model of nexus-bridge-mcp: the EIP-1193 provider adapter              *)
(* (services/eip1193-adapter.ts), the operation ledger (status service,    *)
(* reportBridgeStatus / getBridgeStatus / getAllOperations) and the        *)
(* execute_bridge tool handler (index.ts).                                 *)
(*                                                                         *)
(* JavaScript strings that the code parses or formats are sequences of     *)
(* one-character strings, so that parseInt(s, 16) and n.toString(16) are   *)
(* computed and not assumed.                                               *)
(***************************************************************************)
EXTENDS Integers, Sequences, FiniteSets, TLC

VARIABLES
    \* ---- one adapter instance (createEip1193Provider) ----
    chains,          \* the constructor argument, kept for reference
    currentChainId,  \* let currentChainId
    chainMap,        \* const chainMap = new Map<number, ChainRpc>()
    listeners,       \* the EventEmitter's listener arrays, by event name
    lastReq,         \* the last operation performed on the provider (the method
                     \* and, for a switch or a registration, the id parsed)
    result,          \* how that operation ended (value returned or error thrown)
    emitted,         \* the listener calls made during that operation, in order
    switchedTo,      \* history: <<target of the last successful switch>>, <<>> before any
    recover,         \* history: progress of the switch/add/switch protocol, by id
    \* ---- the operation ledger (status service) ----
    operations,      \* const operations = new Map<string, BridgeOperation>()
    opOrder,         \* the Map's iteration order: its keys in order of first insertion
    now,             \* what Date.now() returns
    ledgerOp,        \* the last ledger call and what it returned
    written,         \* history: the data of the last reportBridgeStatus call, by id
    \* ---- the execute_bridge tool handler (index.ts) ----
    config,          \* the parsed environment: PRIVATE_KEY and NETWORK_MODE
    exec,            \* the state of each execute_bridge call, by call
    quote,           \* the last response of the get_bridge_quote tool
    chainsAnswer,    \* the last response of the get_chains tool
    service,         \* let nexusInstance, and the last call made of that service
    providers,       \* the adapter instances of two executions, by execution
    twin,            \* PRIVATE_KEY of a second server process, when call e2 is
                     \* made of one to compare two runs; empty otherwise
    balances         \* the getMultiChainBalances call: the reads awaited, the
                     \* entries pushed, what it returned

adapterVars == <<chains, currentChainId, chainMap, listeners, lastReq, result,
                 emitted, switchedTo, recover>>

ledgerVars == <<operations, opOrder, now, ledgerOp, written>>

\* What the handler of execute_bridge never touches.
otherTools == <<quote, chainsAnswer, service, providers, twin, balances>>

bridgeVars == <<config, exec, otherTools>>

vars == <<adapterVars, ledgerVars, bridgeVars>>

None == "none"

\* What a step of one component leaves alone.
LedgerUntouched == UNCHANGED ledgerVars
AdapterUntouched == UNCHANGED adapterVars
BridgeUntouched == UNCHANGED bridgeVars

(***************************************************************************)
(* Bounds of the model.                                                    *)
(***************************************************************************)
\* The EventEmitter holds at most this many listener registrations in all.
MaxListeners == 2

\* The clock is followed up to this reading.
MaxClock == 3

(***************************************************************************)
(* Numbers and strings as JavaScript handles them.                         *)
(***************************************************************************)
\* parseInt's NaN: a marker outside the naturals that parseInt yields for the
\* unsigned inputs used here.
NaN == 0 - 1

HexDigits == <<"0", "1", "2", "3", "4", "5", "6", "7", "8", "9",
               "a", "b", "c", "d", "e", "f">>

UpperHexDigits == <<"0", "1", "2", "3", "4", "5", "6", "7", "8", "9",
                    "A", "B", "C", "D", "E", "F">>

IsHexDigit(c) ==
    \E i \in 1..16 : HexDigits[i] = c \/ UpperHexDigits[i] = c

DigitValue(c) ==
    (CHOOSE i \in 1..16 : HexDigits[i] = c \/ UpperHexDigits[i] = c) - 1

\* The part of s that parseInt(s, 16) reads digits from: an optional 0x or 0X
\* prefix is skipped.
StripHexPrefix(s) ==
    IF Len(s) >= 2 /\ s[1] = "0" /\ s[2] \in {"x", "X"}
    THEN SubSeq(s, 3, Len(s))
    ELSE s

\* Length of the longest prefix of s made of hex digits.
RECURSIVE DigitPrefixLen(_)
DigitPrefixLen(s) ==
    IF s = <<>> \/ ~IsHexDigit(Head(s))
    THEN 0
    ELSE 1 + DigitPrefixLen(Tail(s))

RECURSIVE HexValue(_)
HexValue(s) ==
    IF s = <<>>
    THEN 0
    ELSE 16 * HexValue(SubSeq(s, 1, Len(s) - 1)) + DigitValue(s[Len(s)])

\* parseInt(s, 16) for a string without leading blanks or sign: the value of
\* the longest digit prefix after the optional 0x, NaN when there is none.
ParseInt16(s) ==
    LET body == StripHexPrefix(s)
        n    == DigitPrefixLen(body)
    IN  IF n = 0 THEN NaN ELSE HexValue(SubSeq(body, 1, n))

\* n.toString(16)
RECURSIVE ToString16(_)
ToString16(n) ==
    IF n = NaN THEN <<"N", "a", "N">>
    ELSE IF n < 16 THEN <<HexDigits[n + 1]>>
    ELSE ToString16(n \div 16) \o <<HexDigits[(n % 16) + 1]>>

\* `0x${n.toString(16)}`
HexString(n) == <<"0", "x">> \o ToString16(n)

(***************************************************************************)
(* Numbers wider than the model checker's integers.  A natural is a        *)
(* sequence of limbs below LimbBase, lowest limb first, without a highest  *)
(* zero limb (zero is <<>>); an IEEE 754 double is a mantissa of at most   *)
(* MantissaBits bits and a binary exponent.                                *)
(***************************************************************************)
LimbBits == 15
LimbBase == 32768

\* The mantissa width of a double.
MantissaBits == 53

\* The limbs of a small natural n.
RECURSIVE BigOf(_)
BigOf(n) == IF n = 0 THEN <<>> ELSE <<n % LimbBase>> \o BigOf(n \div LimbBase)

\* The natural the limbs stand for, when it fits an integer.
RECURSIVE BigToInt(_)
BigToInt(a) == IF a = <<>> THEN 0 ELSE Head(a) + LimbBase * BigToInt(Tail(a))

\* a * c + carry, for c and carry below LimbBase
RECURSIVE MulSmallCarry(_, _, _)
MulSmallCarry(a, c, carry) ==
    IF a = <<>> THEN BigOf(carry)
    ELSE <<(Head(a) * c + carry) % LimbBase>>
         \o MulSmallCarry(Tail(a), c, (Head(a) * c + carry) \div LimbBase)

\* a with its highest zero limbs removed
RECURSIVE Normal(_)
Normal(a) ==
    IF a = <<>> \/ a[Len(a)] # 0 THEN a ELSE Normal(SubSeq(a, 1, Len(a) - 1))

MulSmall(a, c) == Normal(MulSmallCarry(a, c, 0))

AddSmall(a, c) == MulSmallCarry(a, 1, c)

\* Quotient q and remainder r of a by c, for c below LimbBase.
RECURSIVE DivSmall(_, _)
DivSmall(a, c) ==
    IF a = <<>> THEN [q |-> <<>>, r |-> 0]
    ELSE LET d == DivSmall(Tail(a), c)
             t == d.r * LimbBase + Head(a)
         IN  [q |-> IF d.q = <<>> /\ t < c THEN <<>> ELSE <<t \div c>> \o d.q,
              r |-> t % c]

RECURSIVE Pow2(_)
Pow2(k) == IF k = 0 THEN 1 ELSE 2 * Pow2(k - 1)

RECURSIVE SmallBitLength(_)
SmallBitLength(n) == IF n = 0 THEN 0 ELSE 1 + SmallBitLength(n \div 2)

\* The number of bits of a.
BitLength(a) ==
    IF a = <<>> THEN 0 ELSE LimbBits * (Len(a) - 1) + SmallBitLength(a[Len(a)])

\* a * 2^k
ShiftLeft(a, k) ==
    IF a = <<>> THEN <<>>
    ELSE [i \in 1..(k \div LimbBits) |-> 0] \o MulSmallCarry(a, Pow2(k % LimbBits), 0)

\* Quotient q of a by 2^k, and whether the division is exact.
ShiftRight(a, k) ==
    LET limbs == k \div LimbBits
        d     == DivSmall(SubSeq(a, limbs + 1, Len(a)), Pow2(k % LimbBits))
    IN  [q |-> d.q,
         exact |-> d.r = 0 /\ \A i \in 1..limbs : i <= Len(a) => a[i] = 0]

\* a * 10^k
RECURSIVE TimesPow10(_, _)
TimesPow10(a, k) == IF k = 0 \/ a = <<>> THEN a ELSE TimesPow10(MulSmall(a, 10), k - 1)

\* Quotient q of a by 10^k, and whether the division is exact.  (Here and
\* below an intermediate value is bound by a one-element set, which makes
\* the model checker compute it once.)
RECURSIVE DivPow10(_, _)
DivPow10(a, k) ==
    IF k = 0 \/ a = <<>> THEN [q |-> a, exact |-> TRUE]
    ELSE CHOOSE r \in {IF d.r = 0 THEN DivPow10(d.q, k - 1)
                       ELSE [q |-> DivPow10(d.q, k - 1).q, exact |-> FALSE] :
                         d \in {DivSmall(a, 10)}} : TRUE

\* The natural written by the decimal digits s.
RECURSIVE BigOfDigits(_)
BigOfDigits(s) ==
    IF s = <<>> THEN <<>>
    ELSE CHOOSE r \in {Normal(MulSmallCarry(a, 10, DigitValue(s[Len(s)]))) :
                         a \in {BigOfDigits(SubSeq(s, 1, Len(s) - 1))}} : TRUE

\* The decimal digits of a natural: n.toString() of a bigint.
RECURSIVE DigitsOfBig(_)
DigitsOfBig(a) ==
    LET d == DivSmall(a, 10)
    IN  IF d.q = <<>> THEN <<HexDigits[d.r + 1]>>
        ELSE DigitsOfBig(d.q) \o <<HexDigits[d.r + 1]>>

\* The double nearest to a * 2^e (ties to the even mantissa), as mantissa m
\* and exponent e; inexact says that a is itself a truncation.
RoundToDouble(a, e, inexact) ==
    LET drop == BitLength(a) - MantissaBits
    IN  IF drop <= 0 THEN [m |-> a, e |-> e]
        ELSE LET s      == ShiftRight(a, drop - 1)
                 guard  == s.q[1] % 2 = 1
                 sticky == inexact \/ ~s.exact
                 kept   == DivSmall(s.q, 2).q
                 up     == guard /\ (sticky \/ kept[1] % 2 = 1)
             IN  [m |-> IF up THEN AddSmall(kept, 1) ELSE kept, e |-> e + drop]

\* The double parseFloat yields for digits with scale fraction digits: the
\* double nearest to digits / 10^scale.
DoubleOfDecimal(digits, scale) ==
    LET k == IF scale = 0 THEN 0 ELSE MantissaBits + 3 + 4 * scale
    IN  CHOOSE x \in {RoundToDouble(d.q, 0 - k, ~d.exact) :
                        d \in {DivPow10(ShiftLeft(n, k), scale) :
                                 n \in {BigOfDigits(digits)}}} : TRUE

\* x * 10 ** decimals in double arithmetic (10 ** decimals is itself exact
\* for the decimals in use).
DoubleTimesPow10(x, decimals) ==
    CHOOSE y \in {RoundToDouble(p, x.e, FALSE) : p \in {TimesPow10(x.m, decimals)}} : TRUE

\* Math.round(x) of a non-negative double, as a natural: floor(x + 1/2).
MathRound(x) ==
    IF x.e >= 0 THEN ShiftLeft(x.m, x.e)
    ELSE DivSmall(AddSmall(ShiftRight(x.m, (0 - x.e) - 1).q, 1), 2).q

(***************************************************************************)
(* The adapter: createEip1193Provider(privateKey, chains).                 *)
(***************************************************************************)
\* Chains as viem describes them, with the RPC URL the caller passes.
BaseSepolia == [id |-> 84532, name |-> "Base Sepolia", rpcUrl |-> "https://sepolia.base.org"]
OpSepolia == [id |-> 11155420, name |-> "OP Sepolia", rpcUrl |-> "https://sepolia.optimism.io"]

\* The chain lists an adapter is constructed with: Base Sepolia only, and
\* the two chains of the adapter test's TEST_CHAINS with OP Sepolia first.
ChainLists ==
    { <<BaseSepolia>>, <<OpSepolia, BaseSepolia>> }

\* chainId strings a caller sends: chain 1 (plain and zero-padded) and the
\* two test chains (0x14a34 = 84532, 0xaa37dc = 11155420).
ChainIdStrings ==
    { <<"0", "x", "1">>, <<"0", "x", "0", "1">>,
      <<"0", "x", "1", "4", "a", "3", "4">>,
      <<"0", "x", "a", "a", "3", "7", "d", "c">> }

\* Switch requests also arrive with a chainId that holds no digit at all.
SwitchChainIdStrings == ChainIdStrings \cup { <<"0", "x">> }

\* wallet_addEthereumChain payloads: chainName and rpcUrls (an absent rpcUrls
\* field and an empty list both make rpcUrls?.[0] undefined: the empty list
\* stands for both).
AddPayloads ==
    { [chainName |-> "Ethereum", rpcUrls |-> <<"https://rpc.one", "https://rpc.two">>],
      [chainName |-> "Mainnet", rpcUrls |-> <<>>] }

Events == {"chainChanged", "accountsChanged"}
Handlers == {"h1", "h2"}

\* The subscriptions callers make: both handlers to chainChanged, one of them
\* to accountsChanged as well.
Subscriptions ==
    { <<"chainChanged", "h1">>, <<"chainChanged", "h2">>, <<"accountsChanged", "h1">> }

\* Methods the adapter has no case for: a read, the transaction send and the
\* two message-signing methods.
PassthroughMethods == {"eth_getBalance", "eth_sendTransaction", "personal_sign", "eth_sign"}

\* The params a request carries: an array, an object, or none.
PassthroughParams ==
    { [type |-> "array", value |-> <<"0xa11ce", "latest">>],
      [type |-> "object", value |-> <<"to: 0xb0b">>],
      [type |-> "undefined", value |-> <<>>] }

\* The requests made of the default case: the read with each shape of
\* params, the others with an array.
PassthroughRequests ==
    {[method |-> "eth_getBalance", params |-> p] : p \in PassthroughParams}
    \cup {[method |-> m, params |-> [type |-> "array", value |-> <<"0xa11ce", "latest">>]] :
             m \in PassthroughMethods}

\* const paramArray = Array.isArray(params) ? params : params ? [params] : []
ParamArray(params) ==
    IF params.type = "array" THEN params
    ELSE IF params.type # "undefined" THEN [type |-> "array", value |-> <<params>>]
    ELSE [type |-> "array", value |-> <<>>]

Address == "account.address"

\* for (const entry of chains) chainMap.set(entry.chain.id, entry): a later
\* entry with the same id replaces an earlier one.
RECURSIVE BuildChainMap(_)
BuildChainMap(cs) ==
    IF cs = <<>>
    THEN << >>
    ELSE LET rest == BuildChainMap(SubSeq(cs, 1, Len(cs) - 1))
             e    == cs[Len(cs)]
         IN  [k \in (DOMAIN rest) \cup {e.id} |->
                 IF k = e.id THEN [name |-> e.name, rpcUrl |-> e.rpcUrl] ELSE rest[k]]

\* How an operation ended: value is what request() resolved to (a string or
\* a list, as a sequence; null is the empty sequence with kind "null"), or
\* the error it rejected with (its message and its code property, 0 when the
\* error has none).
NoResult == [ok |-> TRUE, kind |-> "void", value |-> <<>>, code |-> 0]
Returned(k, v) == [ok |-> TRUE, kind |-> k, value |-> v, code |-> 0]
Thrown(msg, c) == [ok |-> FALSE, kind |-> "error", value |-> <<msg>>, code |-> c]

UnrecognizedChainCode == 4902

InitAdapter ==
    /\ chains \in ChainLists
    /\ currentChainId = chains[1].id
    /\ chainMap = BuildChainMap(chains)
    /\ listeners = [e \in Events |-> <<>>]
    /\ lastReq = [method |-> None]
    /\ result = NoResult
    /\ emitted = <<>>
    /\ switchedTo = <<>>
    /\ recover = << >>

\* An emit that calls each distinct listener once, however often it is registered.
EmitOncePerListener(ls, event, payload) ==
    LET l     == ls[event]
        first == {i \in 1..Len(l) : \A j \in 1..(i - 1) : l[j] # l[i]}
        RECURSIVE Calls(_)
        Calls(i) ==
            IF i > Len(l) THEN <<>>
            ELSE (IF i \in first THEN <<[handler |-> l[i], payload |-> payload]>> ELSE <<>>)
                 \o Calls(i + 1)
    IN  Calls(1)

\* emitter.emit(event, payload): every registered listener of the event is
\* called once per registration, in registration order.
EmitterEmit(ls, event, payload) ==
    [i \in 1..Len(ls[event]) |-> [handler |-> ls[event][i], payload |-> payload]]

\* emitter.on(event, listener): appends, also when the listener is already there.
EmitterOn(ls, event, h) ==
    [ls EXCEPT ![event] = Append(@, h)]

\* emitter.removeListener(event, listener): removes the most recently added
\* registration of the listener, if there is one.
EmitterRemoveListener(ls, event, h) ==
    LET l   == ls[event]
        idx == {i \in 1..Len(l) : l[i] = h}
    IN  IF idx = {}
        THEN ls
        ELSE LET last == CHOOSE i \in idx : \A j \in idx : j <= i
             IN  [ls EXCEPT ![event] = SubSeq(l, 1, last - 1) \o SubSeq(l, last + 1, Len(l))]

TotalListeners == Len(listeners["chainChanged"]) + Len(listeners["accountsChanged"])

\* recover[id]: "failed" once a switch to id was refused, "added" once a
\* registration of id followed that.
RecoverIn(r, id) == IF id \in DOMAIN r THEN r[id] ELSE None
RecoverOf(id) == RecoverIn(recover, id)
SetRecover(id, v) == [k \in (DOMAIN recover) \cup {id} |-> IF k = id THEN v ELSE recover[k]]

\* An adapter that announces the account to the subscribers whenever it is
\* asked for the accounts.
EthAccountsAnnouncing(method) ==
    /\ lastReq' = [method |-> method]
    /\ result' = Returned("list", <<Address>>)
    /\ emitted' = EmitterEmit(listeners, "accountsChanged", <<Address>>)
    /\ UNCHANGED <<chains, currentChainId, chainMap, listeners, switchedTo, recover>>
    /\ LedgerUntouched
    /\ BridgeUntouched

\* case "eth_accounts": case "eth_requestAccounts":
EthAccounts(method) ==
    /\ lastReq' = [method |-> method]
    /\ result' = Returned("list", <<Address>>)
    /\ emitted' = <<>>
    /\ UNCHANGED <<chains, currentChainId, chainMap, listeners, switchedTo, recover>>
    /\ LedgerUntouched
    /\ BridgeUntouched

\* case "eth_chainId":
EthChainId ==
    /\ lastReq' = [method |-> "eth_chainId"]
    /\ result' = Returned("string", HexString(currentChainId))
    /\ emitted' = <<>>
    /\ UNCHANGED <<chains, currentChainId, chainMap, listeners, switchedTo, recover>>
    /\ LedgerUntouched
    /\ BridgeUntouched

\* A switch that moves the pointer before it looks the chain up.
SwitchAssignsBeforeLookup(chainId) ==
    LET newChainId == ParseInt16(chainId)
    IN  /\ lastReq' = [method |-> "wallet_switchEthereumChain", id |-> newChainId]
        /\ currentChainId' = newChainId
        /\ IF newChainId \notin DOMAIN chainMap
           THEN /\ result' = Thrown("Unrecognized chain", UnrecognizedChainCode)
                /\ emitted' = <<>>
                /\ recover' = SetRecover(newChainId, "failed")
                /\ UNCHANGED switchedTo
           ELSE /\ emitted' = EmitterEmit(listeners, "chainChanged", HexString(newChainId))
                /\ result' = Returned("null", <<>>)
                /\ switchedTo' = <<newChainId>>
                /\ UNCHANGED recover
        /\ UNCHANGED <<chains, chainMap, listeners>>
        /\ LedgerUntouched
        /\ BridgeUntouched

\* case "wallet_switchEthereumChain":
SwitchEthereumChain(chainId) ==
    LET newChainId == ParseInt16(chainId)
    IN  /\ lastReq' = [method |-> "wallet_switchEthereumChain", id |-> newChainId]
        /\ IF newChainId \notin DOMAIN chainMap
           THEN /\ result' = Thrown("Unrecognized chain", UnrecognizedChainCode)
                /\ emitted' = <<>>
                /\ recover' = SetRecover(newChainId, "failed")
                /\ UNCHANGED <<currentChainId, switchedTo>>
           ELSE /\ currentChainId' = newChainId
                /\ emitted' = EmitterEmit(listeners, "chainChanged", HexString(newChainId))
                /\ result' = Returned("null", <<>>)
                /\ switchedTo' = <<newChainId>>
                /\ UNCHANGED recover
        /\ UNCHANGED <<chains, chainMap, listeners>>
        /\ LedgerUntouched
        /\ BridgeUntouched

\* A registration that writes the entry whether or not the id is known.
AddEthereumChainOverwrites(chainId, payload) ==
    LET addChainId == ParseInt16(chainId)
        rpcUrl     == IF payload.rpcUrls = <<>> THEN "undefined" ELSE payload.rpcUrls[1]
    IN  /\ lastReq' = [method |-> "wallet_addEthereumChain", id |-> addChainId]
        /\ chainMap' = [k \in (DOMAIN chainMap) \cup {addChainId} |->
                           IF k = addChainId
                           THEN [name |-> payload.chainName, rpcUrl |-> rpcUrl]
                           ELSE chainMap[k]]
        /\ recover' = IF RecoverOf(addChainId) = "failed"
                      THEN SetRecover(addChainId, "added")
                      ELSE recover
        /\ result' = Returned("null", <<>>)
        /\ emitted' = <<>>
        /\ UNCHANGED <<chains, currentChainId, listeners, switchedTo>>
        /\ LedgerUntouched
        /\ BridgeUntouched

\* A registration that answers null without recording the chain.
AddEthereumChainForgets(chainId, payload) ==
    LET addChainId == ParseInt16(chainId)
    IN  /\ lastReq' = [method |-> "wallet_addEthereumChain", id |-> addChainId]
        /\ recover' = IF RecoverOf(addChainId) = "failed"
                      THEN SetRecover(addChainId, "added")
                      ELSE recover
        /\ result' = Returned("null", <<>>)
        /\ emitted' = <<>>
        /\ UNCHANGED <<chains, currentChainId, chainMap, listeners, switchedTo>>
        /\ LedgerUntouched
        /\ BridgeUntouched

\* case "wallet_addEthereumChain":
AddEthereumChain(chainId, payload) ==
    LET addChainId == ParseInt16(chainId)
        rpcUrl     == IF payload.rpcUrls = <<>>
                      THEN "undefined"
                      ELSE payload.rpcUrls[1]
    IN  /\ lastReq' = [method |-> "wallet_addEthereumChain", id |-> addChainId]
        /\ IF addChainId \notin DOMAIN chainMap
           THEN chainMap' = [k \in (DOMAIN chainMap) \cup {addChainId} |->
                               IF k = addChainId
                               THEN [name |-> payload.chainName, rpcUrl |-> rpcUrl]
                               ELSE chainMap[k]]
           ELSE UNCHANGED chainMap
        /\ recover' = IF RecoverOf(addChainId) = "failed"
                      THEN SetRecover(addChainId, "added")
                      ELSE recover
        /\ result' = Returned("null", <<>>)
        /\ emitted' = <<>>
        /\ UNCHANGED <<chains, currentChainId, listeners, switchedTo>>
        /\ LedgerUntouched
        /\ BridgeUntouched

\* A default case that keeps the client of the chain the adapter started on.
PassthroughToFirstChain(method, params, answers) ==
    /\ lastReq' = [method |-> method, chain |-> currentChainId, params |-> params,
                   forwarded |-> <<[method |-> method, params |-> ParamArray(params),
                                    chain |-> chains[1].id]>>]
    /\ result' = IF answers
                 THEN Returned("rpc", <<chainMap[chains[1].id].rpcUrl>>)
                 ELSE Thrown("network error", 0)
    /\ emitted' = <<>>
    /\ UNCHANGED <<chains, currentChainId, chainMap, listeners, switchedTo, recover>>
    /\ LedgerUntouched
    /\ BridgeUntouched

\* default: every other method goes, with its parameters as an array, to the
\* public client of the current chain (getClients throws when the chain has
\* no entry); the network answers or fails.
Passthrough(method, params, answers) ==
    /\ lastReq' = [method |-> method, chain |-> currentChainId, params |-> params,
                   forwarded |-> IF currentChainId \notin DOMAIN chainMap THEN <<>>
                                 ELSE <<[method |-> method,
                                         params |-> ParamArray(params),
                                         chain |-> currentChainId]>>]
    /\ result' = IF currentChainId \notin DOMAIN chainMap
                 THEN Thrown("Chain not configured in provider", 0)
                 ELSE IF answers
                      THEN Returned("rpc", <<chainMap[currentChainId].rpcUrl>>)
                      ELSE Thrown("network error", 0)
    /\ emitted' = <<>>
    /\ UNCHANGED <<chains, currentChainId, chainMap, listeners, switchedTo, recover>>
    /\ LedgerUntouched
    /\ BridgeUntouched

\* provider.on(event, listener)
On(event, h) ==
    /\ TotalListeners < MaxListeners
    /\ listeners' = EmitterOn(listeners, event, h)
    /\ lastReq' = [method |-> "on"]
    /\ result' = NoResult
    /\ emitted' = <<>>
    /\ UNCHANGED <<chains, currentChainId, chainMap, switchedTo, recover>>
    /\ LedgerUntouched
    /\ BridgeUntouched

\* provider.removeListener(event, listener)
RemoveListener(event, h) ==
    /\ listeners' = EmitterRemoveListener(listeners, event, h)
    /\ lastReq' = [method |-> "removeListener"]
    /\ result' = NoResult
    /\ emitted' = <<>>
    /\ UNCHANGED <<chains, currentChainId, chainMap, switchedTo, recover>>
    /\ LedgerUntouched
    /\ BridgeUntouched

(***************************************************************************)
(* The operation ledger: reportBridgeStatus, getBridgeStatus,              *)
(* getAllOperations.                                                       *)
(***************************************************************************)
OperationIds == {"op-1", "op-2"}

\* Amount strings, character by character: "25000000" and "10".
Amount25000000 == <<"2", "5", "0", "0", "0", "0", "0", "0">>
Amount10 == <<"1", "0">>

Undefined == "undefined"

\* The data reportBridgeStatus is called with, besides the operation id.
Reports ==
    { [txHash |-> "0xabc", fromChainId |-> 10, toChainId |-> 8453, token |-> "USDC",
       amount |-> Amount25000000, status |-> "pending", error |-> Undefined],
      [txHash |-> "0xabc", fromChainId |-> 10, toChainId |-> 8453, token |-> "USDC",
       amount |-> Amount25000000, status |-> "completed", error |-> Undefined],
      [txHash |-> "", fromChainId |-> 42161, toChainId |-> 8453, token |-> "USDT",
       amount |-> Amount10, status |-> "failed", error |-> "Insufficient balance"] }

\* A map that holds the entry set last and no other.
MapSetAlone(m, k, v) == [x \in {k} |-> v]

\* A function with key k set to v, whether or not k was a key.
MapSet(m, k, v) == [x \in (DOMAIN m) \cup {k} |-> IF x = k THEN v ELSE m[x]]

\* A record whose createdAt is stamped anew at every write.
OperationRestampsCreatedAt(ops, id, data, t) ==
    [id |-> id, txHash |-> data.txHash, fromChainId |-> data.fromChainId,
     toChainId |-> data.toChainId, token |-> data.token, amount |-> data.amount,
     status |-> data.status, error |-> data.error, createdAt |-> t, updatedAt |-> t]

\* A record that keeps the transaction hash of the record it replaces.
OperationKeepsOldTxHash(ops, id, data, t) ==
    [id |-> id,
     txHash |-> IF id \in DOMAIN ops THEN ops[id].txHash ELSE data.txHash,
     fromChainId |-> data.fromChainId, toChainId |-> data.toChainId,
     token |-> data.token, amount |-> data.amount, status |-> data.status,
     error |-> data.error,
     createdAt |-> IF id \in DOMAIN ops THEN ops[id].createdAt ELSE t,
     updatedAt |-> t]

\* The record reportBridgeStatus builds at clock reading t.
Operation(ops, id, data, t) ==
    [id |-> id,
     txHash |-> data.txHash,
     fromChainId |-> data.fromChainId,
     toChainId |-> data.toChainId,
     token |-> data.token,
     amount |-> data.amount,
     status |-> data.status,
     error |-> data.error,
     createdAt |-> IF id \in DOMAIN ops THEN ops[id].createdAt ELSE t,
     updatedAt |-> t]

\* The fields a caller passes, as a stored record shows them.
DataOf(op) ==
    [txHash |-> op.txHash, fromChainId |-> op.fromChainId, toChainId |-> op.toChainId,
     token |-> op.token, amount |-> op.amount, status |-> op.status, error |-> op.error]

\* Array.prototype.sort with (a, b) => b.updatedAt - a.updatedAt: a stable
\* sort, here by insertion from the left.
RECURSIVE InsertByUpdatedAtDesc(_, _)
InsertByUpdatedAtDesc(sorted, op) ==
    IF sorted = <<>> THEN <<op>>
    ELSE IF Head(sorted).updatedAt >= op.updatedAt
         THEN <<Head(sorted)>> \o InsertByUpdatedAtDesc(Tail(sorted), op)
         ELSE <<op>> \o sorted

\* The records left in the Map's iteration order.
Unsorted(ops) == ops

RECURSIVE SortByUpdatedAtDesc(_)
SortByUpdatedAtDesc(ops) ==
    IF ops = <<>> THEN <<>>
    ELSE InsertByUpdatedAtDesc(SortByUpdatedAtDesc(SubSeq(ops, 1, Len(ops) - 1)),
                               ops[Len(ops)])

\* Array.from(operations.values()): the records in the Map's iteration order.
OperationValues(ops, order) == [i \in 1..Len(order) |-> ops[order[i]]]

InitLedger ==
    /\ operations = << >>
    /\ opOrder = <<>>
    /\ now = 1
    /\ ledgerOp = [kind |-> None]
    /\ written = << >>

\* Time passes between calls; Date.now() does not go back.
Tick ==
    /\ now < MaxClock
    /\ now' = now + 1
    /\ UNCHANGED <<operations, opOrder, ledgerOp, written>>
    /\ AdapterUntouched
    /\ BridgeUntouched

\* reportBridgeStatus(data): the write to the ledger.
WriteOperation(id, data) ==
    LET operation == Operation(operations, id, data, now)
    IN  /\ operations' = MapSet(operations, id, operation)
        /\ opOrder' = IF id \in DOMAIN operations THEN opOrder ELSE Append(opOrder, id)
        /\ ledgerOp' = [kind |-> "report", id |-> id, returned |-> <<operation>>]
        /\ written' = MapSet(written, id, data)
        /\ UNCHANGED now

\* reportBridgeStatus(data), called on its own.
ReportBridgeStatus(id, data) ==
    /\ WriteOperation(id, data)
    /\ AdapterUntouched
    /\ BridgeUntouched

\* getBridgeStatus(id): the record, or undefined (the empty sequence).
GetBridgeStatus(id) ==
    /\ ledgerOp' = [kind |-> "get", id |-> id,
                    returned |-> IF id \in DOMAIN operations
                                 THEN <<operations[id]>>
                                 ELSE <<>>]
    /\ UNCHANGED <<operations, opOrder, now, written>>
    /\ AdapterUntouched
    /\ BridgeUntouched

\* getAllOperations()
GetAllOperations ==
    /\ ledgerOp' = [kind |-> "list", id |-> None,
                    returned |-> SortByUpdatedAtDesc(OperationValues(operations, opOrder))]
    /\ UNCHANGED <<operations, opOrder, now, written>>
    /\ AdapterUntouched
    /\ BridgeUntouched

(***************************************************************************)
(* The execute_bridge tool: configuration and pure helpers.                *)
(***************************************************************************)
\* Object.values(MAINNET_CHAINS) and Object.values(TESTNET_CHAINS), by id.
MAINNET_CHAINS == <<8453, 10, 42161, 137>>
TESTNET_CHAINS == <<84532, 11155420, 421614>>

\* getSupportedChains(testnet)
getSupportedChains(testnet) == IF testnet THEN TESTNET_CHAINS ELSE MAINNET_CHAINS

\* A lookup that ignores the network mode.
getChainByIdInAnyMode(chainId, testnet) ==
    SelectSeq(MAINNET_CHAINS \o TESTNET_CHAINS, LAMBDA id : id = chainId)

\* getChainById(chainId, testnet): the chain, or undefined (the empty sequence).
getChainById(chainId, testnet) ==
    SelectSeq(getSupportedChains(testnet), LAMBDA id : id = chainId)

\* The ids VIEM_CHAINS of index.ts has a viem chain for.
VIEM_CHAINS == {1, 8453, 84532, 10, 11155420, 42161, 421614, 137, 11155111}

\* The chain ids of Ethereum L1 that the handler appends for sign-in.
Sepolia == 11155111
Mainnet == 1

\* The keys of VAULT_CONTRACTS, which is chosen by the network mode at load.
VAULT_CONTRACTS(testnet) ==
    IF testnet THEN {84532, 11155420, 421614, 11155111}
    ELSE {8453, 10, 42161, 137}

\* VAULT_CONTRACTS[chainId]: the vault's address, or undefined (the empty
\* sequence).
VaultAddress(testnet, chainId) ==
    IF chainId \notin VAULT_CONTRACTS(testnet) THEN <<>>
    ELSE IF ~testnet THEN <<"0xC0DED5d7F424276c821AF21F68E1e663bC671C3D">>
    ELSE IF chainId = 84532 THEN <<"0xa7458040272226378397c3036eda862d60c3b307">>
    ELSE IF chainId = 11155111 THEN <<"0xd579b76e3f51884c50eb8e8efdef5c593666b8fb">>
    ELSE <<"0x10b69f0e3c21c1187526940a615959e9ee6012f9">>

\* viem's maxUint256, 2n ** 256n - 1n: 256 one bits, as limbs.
maxUint256 == [i \in 1..18 |-> IF i = 18 THEN 1 ELSE LimbBase - 1]

\* SUPPORTED_TOKENS: decimals and the chains a token has an address on.
USDC == [symbol |-> "USDC", decimals |-> 6,
         addresses |-> {8453, 10, 42161, 137, 84532, 11155420, 421614}]
USDT == [symbol |-> "USDT", decimals |-> 6,
         addresses |-> {8453, 10, 42161, 137}]
SUPPORTED_TOKENS == <<USDC, USDT>>

\* SUPPORTED_TOKENS[symbol]: the entry, or undefined (the empty sequence).
TokenConfig(symbol) == SelectSeq(SUPPORTED_TOKENS, LAMBDA t : t.symbol = symbol)

\* getTokenAddress(symbol, chainId) is defined.
HasTokenAddress(symbol, chainId) ==
    \E i \in 1..Len(SUPPORTED_TOKENS) :
        SUPPORTED_TOKENS[i].symbol = symbol /\ chainId \in SUPPORTED_TOKENS[i].addresses

\* token.toUpperCase() for the token inputs of the model.
ToUpperCase(token) ==
    CASE token = "usdc" -> "USDC"
      [] token = "usdt" -> "USDT"
      [] token = "Doge" -> "DOGE"
      [] OTHER -> token

IsDecimalDigit(c) == c \in {"0", "1", "2", "3", "4", "5", "6", "7", "8", "9"}

\* Length of the longest prefix of s made of decimal digits.
RECURSIVE DecimalPrefixLen(_)
DecimalPrefixLen(s) ==
    IF s = <<>> \/ ~IsDecimalDigit(Head(s))
    THEN 0
    ELSE 1 + DecimalPrefixLen(Tail(s))

RECURSIVE DecimalValue(_)
DecimalValue(s) ==
    IF s = <<>>
    THEN 0
    ELSE 10 * DecimalValue(SubSeq(s, 1, Len(s) - 1)) + DigitValue(s[Len(s)])

\* parseFloat(s) for a string without leading blanks, sign or exponent: the
\* longest prefix of the form digits[.digits], as its digits without the
\* point and the number of fraction digits; NaN when there is none.
ParseFloat(s) ==
    LET i    == DecimalPrefixLen(s)
        rest == SubSeq(s, i + 1, Len(s))
        f    == IF rest # <<>> /\ Head(rest) = "."
                THEN DecimalPrefixLen(Tail(rest))
                ELSE 0
    IN  IF i = 0 /\ f = 0
        THEN [nan |-> TRUE, digits |-> <<>>, scale |-> 0]
        ELSE [nan |-> FALSE,
              digits |-> SubSeq(s, 1, i) \o SubSeq(rest, 2, f + 1),
              scale |-> f]

\* BigInt(Math.round(parseFloat(amount) * 10 ** decimals)) in double
\* arithmetic: the raw amount as a wide natural in a one-element sequence,
\* or the empty sequence when BigInt throws on NaN.
RawAmountBig(amount, decimals) ==
    LET parsed == ParseFloat(amount)
    IN  IF parsed.nan THEN <<>>
        ELSE <<CHOOSE r \in {MathRound(y) :
                              y \in {DoubleTimesPow10(x, decimals) :
                                       x \in {DoubleOfDecimal(parsed.digits, parsed.scale)}}} :
                 TRUE>>

\* The same raw amount as an integer, for amounts whose raw amount fits one.
RawAmount(amount, decimals) ==
    LET raw == RawAmountBig(amount, decimals)
    IN  IF raw = <<>> THEN <<>> ELSE <<BigToInt(raw[1])>>

\* n.toString() of a non-negative bigint
RECURSIVE ToString10(_)
ToString10(n) ==
    IF n < 10 THEN <<HexDigits[n + 1]>>
    ELSE ToString10(n \div 10) \o <<HexDigits[(n % 10) + 1]>>

\* A test that also asks for an approval at exactly twice the amount.
AllowanceAtMostTwice(currentAllowance, rawAmount) == currentAllowance <= rawAmount * 2

\* The test `currentAllowance < rawAmount * 2n` that guards the approval.
AllowanceTooLow(currentAllowance, rawAmount) == currentAllowance < rawAmount * 2

\* The confirmations waitForTransactionReceipt is asked to wait for.
Confirmations == 2

(***************************************************************************)
(* The execute_bridge tool: the handler, one step per await.               *)
(***************************************************************************)
\* The calls of the tool the model follows.
Executions == {"e1", "e2"}

\* The call followed when calls come one at a time.
OneAtATime == {"e1"}

\* Environments: PRIVATE_KEY unset, set to a key, or set to a 0x string that
\* is no key; NETWORK_MODE.
ValidKey == "0xkey"
MalformedKey == "0xzz"

\* Another key, and what privateKeyToAccount accepts.
OtherKey == "0xkey2"
IsKey(k) == k \in {ValidKey, OtherKey}
Configs ==
    { [PRIVATE_KEY |-> ValidKey, NETWORK_MODE |-> "mainnet"],
      [PRIVATE_KEY |-> ValidKey, NETWORK_MODE |-> "testnet"],
      [PRIVATE_KEY |-> Undefined, NETWORK_MODE |-> "mainnet"],
      [PRIVATE_KEY |-> MalformedKey, NETWORK_MODE |-> "testnet"] }

isTestnet == config.NETWORK_MODE = "testnet"

\* config.PRIVATE_KEY as the handler of call e reads it.
PrivateKey(e) == IF e = "e2" /\ twin # <<>> THEN twin[1] ELSE config.PRIVATE_KEY

\* Amount strings, character by character: "25", "1.5", "0" and "abc".
Amount25 == <<"2", "5">>
Amount1p5 == <<"1", ".", "5">>
Amount0 == <<"0">>
AmountAbc == <<"a", "b", "c">>

\* The arguments the tool is called with.
Requests ==
    { [fromChainId |-> 10, toChainId |-> 8453, token |-> "USDC", amount |-> Amount25],
      [fromChainId |-> 10, toChainId |-> 8453, token |-> "USDC", amount |-> AmountAbc],
      [fromChainId |-> 42161, toChainId |-> 999999, token |-> "USDC", amount |-> Amount10],
      [fromChainId |-> 10, toChainId |-> 8453, token |-> "Doge", amount |-> Amount25],
      [fromChainId |-> 84532, toChainId |-> 11155420, token |-> "usdc", amount |-> Amount1p5],
      [fromChainId |-> 84532, toChainId |-> 11155420, token |-> "USDT", amount |-> Amount0] }

\* Math.random().toString(36).slice(2, 8): two of its values.
Randoms == {"k3x9q1", "a7c2zz"}

\* `bridge-${Date.now()}-${random}`
OperationId(t, random) == [prefix |-> "bridge", t |-> t, random |-> random]

\* The allowances the token contract may report for a raw amount.
Allowances(rawAmount) ==
    {a \in {0, rawAmount, 2 * rawAmount - 1, 2 * rawAmount, 2 * rawAmount + 1} : a >= 0}

\* What the engine's bridge call resolves to.
EngineResults ==
    { [explorerUrl |-> "https://explorer/intent/1", txHash |-> "0xabc"],
      [explorerUrl |-> "https://explorer/intent/1", txHash |-> Undefined] }

\* What a failing call throws: an Error with a message, or a value that is no
\* Error.
Errors ==
    { [isError |-> TRUE, message |-> "Insufficient balance"],
      [isError |-> FALSE, message |-> "timeout"] }

\* An Error with the given message.
NewError(message) == [isError |-> TRUE, message |-> message]

\* A catch block that reports its fixed text whatever was thrown.
ErrorMessageDropped(error, fallback) == fallback

\* `error instanceof Error ? error.message : fallback`
ErrorMessage(error, fallback) == IF error.isError THEN error.message ELSE fallback

\* How nexus.initialize can end: the engine initialised, the package missing,
\* the engine's initialize throwing, or the registration of the second hook
\* throwing.
InitializeOutcomes ==
    {"initialized", "require throws", "initialize throws", "setOnIntentHook throws"}

\* The hooks registered with the engine when initialize ends.
HooksAfter(outcome) ==
    IF outcome = "initialized" THEN {"onAllowance", "onIntent"}
    ELSE IF outcome = "setOnIntentHook throws" THEN {"onAllowance"}
    ELSE {}

\* An initialize that sets its flag before it registers the hooks.
InitializedBeforeHooks(outcome) ==
    outcome \in {"initialized", "setOnIntentHook throws"}

\* this.initialized when initialize ends: set after both registrations.
InitializedAfter(outcome) == outcome = "initialized"

\* The source lists the engine asks the allowance hook about, as chain ids.
SourceLists == { <<84532>>, <<10, 8453>> }

\* The allowance hook: allow(sources.map(() => "max")).
OnAllowanceHook(sources) == [i \in DOMAIN sources |-> "max"]

\* The intent hook: allow().
OnIntentHook == "allow"

\* The error NexusService.initialize catches, logs and drops in the two
\* failing outcomes.
InitializeError(outcome) ==
    IF outcome = "require throws"
    THEN NewError("Cannot find module '@avail-project/nexus-core'")
    ELSE IF outcome = "initialize throws"
    THEN NewError("engine initialize failed")
    ELSE NewError("this.sdk.setOnIntentHook is not a function")

\* The provider's chain list: the supported chains viem knows, then L1.
ProviderChains(testnet) ==
    LET known == SelectSeq(getSupportedChains(testnet), LAMBDA id : id \in VIEM_CHAINS)
        l1    == IF testnet THEN Sepolia ELSE Mainnet
    IN  IF \E i \in 1..Len(known) : known[i] = l1 THEN known ELSE Append(known, l1)

(***************************************************************************)
(* The get_chains tool.                                                    *)
(***************************************************************************)
\* The `network` argument a caller may send with a tool call, or none.
NetworkArguments == {Undefined, "mainnet", "testnet"}

\* No get_chains call has been answered yet.
NoChainsAnswer == [asked |-> None, networkMode |-> None, chains |-> <<>>]

\* get_chains: the input schema is {} and the handler takes no argument, so
\* whatever the caller sends the answer is that of the mode the server was
\* loaded with.
GetChains(network) ==
    /\ chainsAnswer' = [asked |-> network,
                        networkMode |-> config.NETWORK_MODE,
                        chains |-> getSupportedChains(isTestnet)]
    /\ UNCHANGED <<config, exec, quote, service, providers, twin, balances>>
    /\ LedgerUntouched
    /\ AdapterUntouched

(***************************************************************************)
(* NexusService and the module's singleton.                                *)
(***************************************************************************)
\* The methods of NexusService that use the engine.
ServiceMethods ==
    {"getBalancesForBridge", "simulateBridge", "getQuote", "bridge", "bridgeAndTransfer"}

\* The engine method a service method calls: getQuote goes through
\* this.simulateBridge.
EngineMethod(method) == IF method = "getQuote" THEN "simulateBridge" ELSE method

\* new NexusService(network): the serial number tells instances apart.
NewNexusService(serial, network) ==
    [serial |-> serial, network |-> network, sdk |-> "null", initialized |-> FALSE]

\* `let nexusInstance = null`; first is the network of the first
\* getNexusService call and succeeded tells whether an initialize of the
\* instance has run to its end; last is how the last call went.
NoService == [instance |-> <<>>, first |-> <<>>, succeeded |-> FALSE, last |-> [call |-> None]]

\* The default of the network parameter.
NetworkOrDefault(network) == IF network = Undefined THEN "mainnet" ELSE network

\* A getNexusService that builds a new service when asked for another network.
GetNexusServicePerNetwork(network) ==
    LET n    == NetworkOrDefault(network)
        inst == IF service.instance = <<>> THEN NewNexusService(1, n)
                ELSE IF service.instance[1].network # n THEN NewNexusService(2, n)
                ELSE service.instance[1]
    IN  /\ service' = [service EXCEPT
                          !.instance = <<inst>>,
                          !.first = IF service.first = <<>> THEN <<n>> ELSE @,
                          !.succeeded = IF service.instance = <<inst>> THEN @ ELSE FALSE,
                          !.last = [call |-> "getNexusService", network |-> network,
                                    returned |-> inst.serial]]
        /\ UNCHANGED <<config, exec, quote, chainsAnswer, providers, twin, balances>>
        /\ LedgerUntouched
        /\ AdapterUntouched

\* getNexusService(network)
GetNexusService(network) ==
    LET n    == NetworkOrDefault(network)
        inst == IF service.instance = <<>> THEN NewNexusService(1, n)
                ELSE service.instance[1]
    IN  /\ service' = [service EXCEPT
                          !.instance = <<inst>>,
                          !.first = IF service.first = <<>> THEN <<n>> ELSE @,
                          !.last = [call |-> "getNexusService", network |-> network,
                                    returned |-> inst.serial]]
        /\ UNCHANGED <<config, exec, quote, chainsAnswer, providers, twin, balances>>
        /\ LedgerUntouched
        /\ AdapterUntouched

\* initialize(provider) on the singleton: a failure is caught and logged.
\* this.sdk is assigned once the package has loaded, this.initialized at
\* the end of the try block.
ServiceInitialize(outcome) ==
    /\ service.instance # <<>>
    /\ service' = [service EXCEPT
                      !.instance[1].sdk = IF outcome = "require throws" THEN @ ELSE "NexusSDK",
                      !.instance[1].initialized = @ \/ InitializedAfter(outcome),
                      !.succeeded = @ \/ outcome = "initialized",
                      !.last = [call |-> "initialize", outcome |-> outcome]]
    /\ UNCHANGED <<config, exec, quote, chainsAnswer, providers, twin, balances>>
    /\ LedgerUntouched
    /\ AdapterUntouched

\* isReady()
IsReady ==
    /\ service.instance # <<>>
    /\ service' = [service EXCEPT
                      !.last = [call |-> "isReady",
                                returned |-> service.instance[1].initialized
                                             /\ service.instance[1].sdk # "null"]]
    /\ UNCHANGED <<config, exec, quote, chainsAnswer, providers, twin, balances>>
    /\ LedgerUntouched
    /\ AdapterUntouched

\* An ensureInitialized that looks at this.sdk only.
EnsureInitializedSdkOnly(inst) == inst.sdk # "null"

\* ensureInitialized() returns: `!this.initialized || !this.sdk` is false.
EnsureInitialized(inst) == inst.initialized /\ inst.sdk # "null"

\* One of the five methods is called on the singleton: ensureInitialized
\* throws, or the engine is called and resolves or throws.  bridge and
\* bridgeAndTransfer turn an engine error into a result.
ServiceCall(method, engineThrows) ==
    /\ service.instance # <<>>
    /\ service' = [service EXCEPT !.last =
          IF ~EnsureInitialized(service.instance[1])
          THEN [call |-> method, engine |-> <<>>,
                rejected |-> <<NewError("NexusService not initialized")>>]
          ELSE IF engineThrows /\ method \notin {"bridge", "bridgeAndTransfer"}
          THEN [call |-> method, engine |-> <<EngineMethod(method)>>,
                rejected |-> <<NewError("engine failed")>>]
          ELSE [call |-> method, engine |-> <<EngineMethod(method)>>,
                rejected |-> <<>>]]
    /\ UNCHANGED <<config, exec, quote, chainsAnswer, providers, twin, balances>>
    /\ LedgerUntouched
    /\ AdapterUntouched

(***************************************************************************)
(* Two adapters side by side: each createEip1193Provider call has its own  *)
(* `let currentChainId` and `const chainMap`.                              *)
(***************************************************************************)
\* The state the closure of one createEip1193Provider(privateKey, cs) holds,
\* and how its last request ended.
NewProvider(cs) ==
    [currentChainId |-> cs[1].id, chainMap |-> BuildChainMap(cs),
     switchedTo |-> <<>>, added |-> {}, lastReq |-> [method |-> None], result |-> NoResult]

\* What an instance answers eth_chainId with.
ChainIdAnswer(p) == HexString(p.currentChainId)

\* The RPC endpoint an instance forwards a passthrough to: that of
\* getClients(currentChainId), none when the chain is not in the registry.
PassthroughTarget(p) ==
    IF p.currentChainId \in DOMAIN p.chainMap
    THEN <<p.chainMap[p.currentChainId].rpcUrl>> ELSE <<>>

\* The other tools and the calls in flight are left alone by a request to
\* an adapter.
ProviderFrame ==
    /\ UNCHANGED <<config, exec, quote, chainsAnswer, service, twin, balances>>
    /\ LedgerUntouched
    /\ AdapterUntouched

\* case "eth_chainId", on the instance of execution e.
ProviderChainId(e) ==
    /\ providers' = [providers EXCEPT
                        ![e].lastReq = [method |-> "eth_chainId"],
                        ![e].result = Returned("string", ChainIdAnswer(providers[e]))]
    /\ ProviderFrame

\* A switch whose pointer is one variable of the module, shared by every
\* instance.
ProviderSwitchShared(e, chainId) ==
    LET newChainId == ParseInt16(chainId)
    IN  /\ providers' =
               IF newChainId \notin DOMAIN providers[e].chainMap
               THEN [providers EXCEPT
                        ![e].lastReq = [method |-> "wallet_switchEthereumChain", id |-> newChainId],
                        ![e].result = Thrown("Unrecognized chain", UnrecognizedChainCode)]
               ELSE [i \in DOMAIN providers |->
                        IF i = e
                        THEN [providers[i] EXCEPT
                                 !.lastReq = [method |-> "wallet_switchEthereumChain", id |-> newChainId],
                                 !.result = Returned("null", <<>>),
                                 !.currentChainId = newChainId,
                                 !.switchedTo = <<newChainId>>]
                        ELSE [providers[i] EXCEPT !.currentChainId = newChainId]]
        /\ ProviderFrame

\* case "wallet_switchEthereumChain", on the instance of execution e.
ProviderSwitch(e, chainId) ==
    LET newChainId == ParseInt16(chainId)
    IN  /\ providers' =
               IF newChainId \notin DOMAIN providers[e].chainMap
               THEN [providers EXCEPT
                        ![e].lastReq = [method |-> "wallet_switchEthereumChain", id |-> newChainId],
                        ![e].result = Thrown("Unrecognized chain", UnrecognizedChainCode)]
               ELSE [providers EXCEPT
                        ![e].lastReq = [method |-> "wallet_switchEthereumChain", id |-> newChainId],
                        ![e].result = Returned("null", <<>>),
                        ![e].currentChainId = newChainId,
                        ![e].switchedTo = <<newChainId>>]
        /\ ProviderFrame

\* default, on the instance of execution e: forwarded to the public client
\* of the instance's current chain, whose endpoint the answer names.
ProviderPassthrough(e, method) ==
    /\ providers' = [providers EXCEPT
                        ![e].lastReq = [method |-> method, chain |-> providers[e].currentChainId],
                        ![e].result = IF PassthroughTarget(providers[e]) = <<>>
                                      THEN Thrown("Chain not configured in provider", 0)
                                      ELSE Returned("list", PassthroughTarget(providers[e]))]
    /\ ProviderFrame

\* The registration the engine asks for: Ethereum L1, for sign-in.
ProviderAddStrings == { <<"0", "x", "1">> }
ProviderAddPayloads == {p \in AddPayloads : p.rpcUrls # <<>>}

\* case "wallet_addEthereumChain", on the instance of execution e; added
\* keeps the ids whose registration this instance answered with null.
ProviderAdd(e, chainId, payload) ==
    LET addChainId == ParseInt16(chainId)
        rpcUrl     == IF payload.rpcUrls = <<>> THEN "undefined" ELSE payload.rpcUrls[1]
        old        == providers[e].chainMap
    IN  /\ providers' = [providers EXCEPT
               ![e].chainMap =
                   IF addChainId \notin DOMAIN old
                   THEN [k \in (DOMAIN old) \cup {addChainId} |->
                            IF k = addChainId
                            THEN [name |-> payload.chainName, rpcUrl |-> rpcUrl]
                            ELSE old[k]]
                   ELSE old,
               ![e].added = @ \cup {addChainId},
               ![e].lastReq = [method |-> "wallet_addEthereumChain", id |-> addChainId],
               ![e].result = Returned("null", <<>>)]
        /\ ProviderFrame

\* Two executions have each constructed their adapter.
InitProviders ==
    providers \in [Executions -> {NewProvider(cs) : cs \in ChainLists}]

\* No adapter is looked at: each holds the state it is constructed with.
IdleProviders ==
    providers = [e \in Executions |-> NewProvider(<<BaseSepolia>>)]

NextProviders ==
    \/ \E e \in Executions : ProviderChainId(e)
    \/ \E e \in Executions, s \in SwitchChainIdStrings : ProviderSwitch(e, s)
    \/ \E e \in Executions, method \in PassthroughMethods : ProviderPassthrough(e, method)
    \/ \E e \in Executions, s \in ProviderAddStrings, p \in ProviderAddPayloads : ProviderAdd(e, s, p)

IdleExecution ==
    [pc |-> "idle", req |-> <<>>, operationId |-> <<>>, tokenUpper |-> "",
     providerChains |-> <<>>, sdk |-> "null", initialized |-> FALSE, hooks |-> {},
     rawAmount |-> <<>>, allowance |-> <<>>, confirmations |-> 0,
     calls |-> <<>>, swallowed |-> <<>>, caught |-> <<>>, engine |-> <<>>,
     hookAnswer |-> <<>>, approvals |-> <<>>, wrote |-> <<>>, response |-> <<>>]

\* No get_bridge_quote call has been answered yet.
NoQuote == [isError |-> FALSE, thrown |-> FALSE, error |-> Undefined, body |-> <<>>]

(***************************************************************************)
(* The balance service: getMultiChainBalances.                             *)
(***************************************************************************)
\* The ids VIEM_CHAINS of the balance service has a viem chain for.
BALANCE_VIEM_CHAINS == {8453, 10, 42161, 137, 84532, 11155420, 421614}

\* getClient(chainId) returns a client, not null.
getClient(chainId) == chainId \in BALANCE_VIEM_CHAINS

\* getTokensForChain(chainId): the tokens with an address on the chain, in
\* the order of SUPPORTED_TOKENS.
getTokensForChain(chainId) == SelectSeq(SUPPORTED_TOKENS, LAMBDA t : chainId \in t.addresses)

\* What balanceOf returns when the read succeeds.
BalanceRead == 1500000

\* The chains whose reads may fail.
FailingChains == {10, 137, 84532, 11155420, 421614}

\* The entry pushed after a read: balance.toString(), or "0" after a throw.
TokenBalance(chainId, token, read) ==
    [chainId |-> chainId, token |-> token.symbol, decimals |-> token.decimals,
     balance |-> IF read = <<>> THEN <<"0">> ELSE ToString10(read[1])]

\* results.sort((a, b) => a.chainId - b.chainId): ascending and stable.
RECURSIVE InsertByChainId(_, _)
InsertByChainId(s, x) ==
    IF s = <<>> THEN <<x>>
    ELSE IF s[Len(s)].chainId <= x.chainId THEN Append(s, x)
    ELSE Append(InsertByChainId(SubSeq(s, 1, Len(s) - 1), x), s[Len(s)])

RECURSIVE SortByChainId(_)
SortByChainId(s) ==
    IF s = <<>> THEN <<>>
    ELSE InsertByChainId(SortByChainId(SubSeq(s, 1, Len(s) - 1)), s[Len(s)])

\* No getMultiChainBalances call has been made.
NoBalances ==
    [pc |-> "idle", testnet |-> FALSE, awaiting |-> <<>>, results |-> <<>>,
     outcomes |-> {}, returned |-> <<>>, threw |-> FALSE]

\* getMultiChainBalances(walletAddress, testnet): chains.map starts one
\* async function per chain, and each runs up to its first readContract.
\* awaiting gives, by chain, the index of the token whose read is awaited
\* (0: that chain's function has returned).
GetMultiChainBalances(testnet) ==
    LET cs == getSupportedChains(testnet)
    IN  /\ balances.pc = "idle"
        /\ balances' = [NoBalances EXCEPT
               !.pc = "reading",
               !.testnet = testnet,
               !.awaiting = [c \in {cs[i] : i \in DOMAIN cs} |->
                                IF getClient(c) /\ getTokensForChain(c) # <<>>
                                THEN 1 ELSE 0]]
        /\ UNCHANGED <<config, exec, quote, chainsAnswer, service, providers, twin>>
        /\ LedgerUntouched
        /\ AdapterUntouched

\* The step of a chain's function after its read has settled: push the
\* entry, then read the next token or return.
AfterRead(chainId, read) ==
    LET tokens == getTokensForChain(chainId)
        index  == balances.awaiting[chainId]
    IN  /\ balances' = [balances EXCEPT
               !.results = Append(@, TokenBalance(chainId, tokens[index], read)),
               !.outcomes = @ \cup {[chainId |-> chainId, token |-> tokens[index].symbol,
                                     read |-> read]},
               !.awaiting[chainId] = IF index < Len(tokens) THEN index + 1 ELSE 0]
        /\ UNCHANGED <<config, exec, quote, chainsAnswer, service, providers, twin>>
        /\ LedgerUntouched
        /\ AdapterUntouched

\* client.readContract(balanceOf) resolves for the token awaited on a chain.
ReadResolves(chainId, balance) ==
    /\ balances.pc = "reading"
    /\ chainId \in DOMAIN balances.awaiting
    /\ balances.awaiting[chainId] > 0
    /\ AfterRead(chainId, <<balance>>)

\* A service whose failed read rejects the whole call.
ReadFailsAborting(chainId) ==
    /\ balances.pc = "reading"
    /\ chainId \in DOMAIN balances.awaiting
    /\ balances.awaiting[chainId] > 0
    /\ balances' = [balances EXCEPT !.pc = "done", !.threw = TRUE,
                                    !.awaiting[chainId] = 0]
    /\ UNCHANGED <<config, exec, quote, chainsAnswer, service, providers, twin>>
    /\ LedgerUntouched
    /\ AdapterUntouched

\* client.readContract(balanceOf) throws: the catch block pushes a zero.
ReadFails(chainId) ==
    /\ balances.pc = "reading"
    /\ chainId \in DOMAIN balances.awaiting
    /\ balances.awaiting[chainId] > 0
    /\ AfterRead(chainId, <<>>)

\* await Promise.all(promises) resolves once every chain's function has
\* returned; the call sorts the entries and returns them. (results keeps
\* the order of the pushes.)
BalancesReturn ==
    /\ balances.pc = "reading"
    /\ \A c \in DOMAIN balances.awaiting : balances.awaiting[c] = 0
    /\ balances' = [balances EXCEPT !.pc = "done",
                                    !.returned = <<SortByChainId(balances.results)>>]
    /\ UNCHANGED <<config, exec, quote, chainsAnswer, service, providers, twin>>
    /\ LedgerUntouched
    /\ AdapterUntouched

\* No tool but execute_bridge and get_bridge_quote is called.
IdleTools ==
    /\ chainsAnswer = NoChainsAnswer
    /\ service = NoService
    /\ twin = <<>>
    /\ IdleProviders

IdleBridge ==
    /\ config = [PRIVATE_KEY |-> Undefined, NETWORK_MODE |-> "testnet"]
    /\ exec = [e \in Executions |-> IdleExecution]
    /\ quote = NoQuote
    /\ balances = NoBalances
    /\ IdleTools

InitBridge ==
    /\ config \in Configs
    /\ exec = [e \in Executions |-> IdleExecution]
    /\ quote = NoQuote
    /\ balances = NoBalances
    /\ IdleTools

\* A handler that constructs the adapter before it validates.
RejectAfterProvider(e, message) ==
    /\ exec' = [exec EXCEPT ![e].pc = "done",
                            ![e].calls = <<"createEip1193Provider">>,
                            ![e].response = <<[isError |-> TRUE, operationId |-> <<>>,
                                               success |-> <<>>, error |-> message]>>]
    /\ LedgerUntouched

\* The handler returns an error before it has an operation id.
Reject(e, message) ==
    /\ exec' = [exec EXCEPT ![e].pc = "done",
                            ![e].response = <<[isError |-> TRUE, operationId |-> <<>>,
                                               success |-> <<>>, error |-> message]>>]
    /\ LedgerUntouched

\* A catch block that answers with the error and records nothing.
CatchWithoutRecord(e, x, error) ==
    /\ LedgerUntouched
    /\ exec' = [exec EXCEPT ![e] =
                   [x EXCEPT !.pc = "done",
                             !.caught = <<error>>,
                             !.response = <<[isError |-> TRUE,
                                             operationId |-> x.operationId,
                                             success |-> <<FALSE>>,
                                             error |-> ErrorMessage(error, "Bridge execution failed")]>>]]

\* A catch block that reports the environment it ran with in place of the
\* error.
CatchNamingKey(e, x, error) ==
    LET message == PrivateKey(e)
        data    == [txHash |-> "", fromChainId |-> x.req[1].fromChainId,
                    toChainId |-> x.req[1].toChainId, token |-> x.tokenUpper,
                    amount |-> x.req[1].amount, status |-> "failed",
                    error |-> message]
    IN  /\ WriteOperation(x.operationId[1], data)
        /\ exec' = [exec EXCEPT ![e] =
                       [x EXCEPT !.pc = "done",
                                 !.caught = <<error>>,
                                 !.wrote = <<data>>,
                                 !.response = <<[isError |-> TRUE,
                                                 operationId |-> x.operationId,
                                                 success |-> <<FALSE>>,
                                                 error |-> message]>>]]

\* The catch block: a failed record with the amount as given, and an error
\* response.  x is the call's state when error is thrown.
Catch(e, x, error) ==
    LET message == ErrorMessage(error, "Bridge execution failed")
        data    == [txHash |-> "", fromChainId |-> x.req[1].fromChainId,
                    toChainId |-> x.req[1].toChainId, token |-> x.tokenUpper,
                    amount |-> x.req[1].amount, status |-> "failed",
                    error |-> message]
    IN  /\ WriteOperation(x.operationId[1], data)
        /\ exec' = [exec EXCEPT ![e] =
                       [x EXCEPT !.pc = "done",
                                 !.caught = <<error>>,
                                 !.wrote = <<data>>,
                                 !.response = <<[isError |-> TRUE,
                                                 operationId |-> x.operationId,
                                                 success |-> <<FALSE>>,
                                                 error |-> message]>>]]

\* A handler that records the operation as pending before it calls the
\* engine.
CallBridgeRecordingPending(e, x) ==
    LET y == [x EXCEPT !.calls = Append(@, "nexus.bridge")]
    IN  IF ~y.initialized \/ y.sdk = "null"
        THEN Catch(e, y, NewError("NexusService not initialized"))
        ELSE /\ exec' = [exec EXCEPT ![e] =
                            [y EXCEPT !.pc = "bridging",
                                      !.calls = Append(@, "sdk.bridge")]]
             /\ WriteOperation(x.operationId[1],
                               [txHash |-> "", fromChainId |-> x.req[1].fromChainId,
                                toChainId |-> x.req[1].toChainId, token |-> x.tokenUpper,
                                amount |-> ToString10(x.rawAmount[1]), status |-> "pending",
                                error |-> Undefined])

\* `await nexus.bridge(...)`: ensureInitialized throws, or the engine's
\* bridge is called.
CallBridge(e, x) ==
    LET y == [x EXCEPT !.calls = Append(@, "nexus.bridge")]
    IN  IF ~y.initialized \/ y.sdk = "null"
        THEN Catch(e, y, NewError("NexusService not initialized"))
        ELSE /\ exec' = [exec EXCEPT ![e] =
                            [y EXCEPT !.pc = "bridging",
                                      !.calls = Append(@, "sdk.bridge")]]
             /\ LedgerUntouched

NextLedger ==
    \/ Tick
    \/ \E id \in OperationIds, data \in Reports : ReportBridgeStatus(id, data)
    \/ \E id \in OperationIds : GetBridgeStatus(id)
    \/ GetAllOperations

IdleAdapter ==
    /\ chains = <<BaseSepolia>>
    /\ currentChainId = 84532
    /\ chainMap = BuildChainMap(chains)
    /\ listeners = [e \in Events |-> <<>>]
    /\ lastReq = [method |-> None]
    /\ result = NoResult
    /\ emitted = <<>>
    /\ switchedTo = <<>>
    /\ recover = << >>

LedgerStart == InitLedger /\ IdleAdapter /\ IdleBridge

SpecLedger == LedgerStart /\ [][NextLedger]_vars

NextAdapter ==
    \/ \E m \in {"eth_accounts", "eth_requestAccounts"} : EthAccounts(m)
    \/ EthChainId
    \/ \E s \in SwitchChainIdStrings : SwitchEthereumChain(s)
    \/ \E s \in ChainIdStrings, p \in AddPayloads : AddEthereumChain(s, p)
    \/ \E r \in PassthroughRequests, a \in BOOLEAN : Passthrough(r.method, r.params, a)
    \/ \E sub \in Subscriptions : On(sub[1], sub[2])
    \/ \E sub \in Subscriptions : RemoveListener(sub[1], sub[2])

AdapterStart == InitAdapter /\ InitLedger /\ IdleBridge

SpecAdapter == AdapterStart /\ [][NextAdapter]_vars

\* A call of execute_bridge arrives: the handler runs up to its first await.
ExecuteBridge(e, req, random) ==
    LET tokenUpper == ToUpperCase(req.token)
        x == [exec[e] EXCEPT !.req = <<req>>,
                             !.tokenUpper = tokenUpper,
                             !.operationId = <<OperationId(now, random)>>,
                             !.providerChains = ProviderChains(isTestnet),
                             !.calls = <<"createEip1193Provider">>]
    IN  /\ exec[e].pc = "idle"
        /\ IF PrivateKey(e) = Undefined
           THEN Reject(e, "PRIVATE_KEY is not set in environment")
           ELSE IF getChainById(req.fromChainId, isTestnet) = <<>>
           THEN Reject(e, "Source chain not supported")
           ELSE IF getChainById(req.toChainId, isTestnet) = <<>>
           THEN Reject(e, "Destination chain not supported")
           ELSE IF TokenConfig(tokenUpper) = <<>>
           THEN Reject(e, "Token is not supported")
           ELSE IF ~IsKey(PrivateKey(e))
           THEN Catch(e, x, NewError("invalid private key"))
           ELSE /\ exec' = [exec EXCEPT ![e] =
                               [x EXCEPT !.pc = "initializing",
                                         !.calls = Append(@, "nexus.initialize")]]
                /\ LedgerUntouched
        /\ UNCHANGED <<config, otherTools>>
        /\ AdapterUntouched

\* nexus.initialize(provider) returns (it swallows its errors); the handler
\* computes the raw amount and, when the source chain has a vault and the
\* token an address there, reads the allowance.
InitializeReturns(e, outcome) ==
    LET req == exec[e].req[1]
        x == [exec[e] EXCEPT
                 !.sdk = IF outcome = "require throws" THEN "null" ELSE "NexusSDK",
                 !.hooks = HooksAfter(outcome),
                 !.initialized = InitializedAfter(outcome),
                 !.swallowed = IF outcome = "initialized" THEN <<>>
                               ELSE <<InitializeError(outcome)>>]
        rawAmount == RawAmount(req.amount, TokenConfig(x.tokenUpper)[1].decimals)
        y == [x EXCEPT !.rawAmount = rawAmount]
    IN  /\ exec[e].pc = "initializing"
        /\ IF rawAmount = <<>>
           THEN Catch(e, x, NewError("The number NaN cannot be converted to a BigInt"))
           ELSE IF /\ req.fromChainId \in VAULT_CONTRACTS(isTestnet)
                   /\ HasTokenAddress(x.tokenUpper, req.fromChainId)
           THEN /\ exec' = [exec EXCEPT ![e] =
                               [y EXCEPT !.pc = "readingAllowance",
                                         !.calls = Append(@, "allowance")]]
                /\ LedgerUntouched
           ELSE CallBridge(e, y)
        /\ UNCHANGED <<config, otherTools>>
        /\ AdapterUntouched

\* An approval of twice the amount, which is what the handler asks the
\* allowance to be.
ApproveArgsTwiceAmount(x) ==
    [token |-> x.tokenUpper, chainId |-> x.req[1].fromChainId,
     spender |-> VaultAddress(isTestnet, x.req[1].fromChainId)[1],
     amount |-> BigOf(2 * x.rawAmount[1])]

\* writeContract({address: tokenAddress, functionName: "approve",
\* args: [vaultAddress, maxUint256]}) on the source chain's wallet client.
ApproveArgs(x) ==
    [token |-> x.tokenUpper, chainId |-> x.req[1].fromChainId,
     spender |-> VaultAddress(isTestnet, x.req[1].fromChainId)[1],
     amount |-> maxUint256]

\* The allowances the read of a call may return.
AllowancesOf(e) ==
    IF exec[e].rawAmount = <<>> THEN {} ELSE Allowances(exec[e].rawAmount[1])

\* The allowances any call of the model may read.
PossibleAllowances ==
    UNION { Allowances(RawAmount(req.amount, USDC.decimals)[1]) :
              req \in {r \in Requests : RawAmount(r.amount, USDC.decimals) # <<>>} }

\* The operation ids get_bridge_status is asked about.
StatusQueries == {OperationId(t, random) : t \in 1..MaxClock, random \in Randoms}

\* The allowance read returns: approve when it is too low, else bridge.
AllowanceReturns(e, currentAllowance) ==
    LET x == [exec[e] EXCEPT !.allowance = <<currentAllowance>>]
    IN  /\ exec[e].pc = "readingAllowance"
        /\ currentAllowance \in AllowancesOf(e)
        /\ IF AllowanceTooLow(currentAllowance, x.rawAmount[1])
           THEN /\ exec' = [exec EXCEPT ![e] =
                               [x EXCEPT !.pc = "approving",
                                         !.approvals = Append(@, ApproveArgs(x)),
                                         !.calls = Append(@, "approve")]]
                /\ LedgerUntouched
           ELSE CallBridge(e, x)
        /\ UNCHANGED <<config, otherTools>>
        /\ AdapterUntouched

\* A handler that reads the allowance again after a failed read.
AllowanceReadFailsRetrying(e, error) ==
    /\ exec[e].pc = "readingAllowance"
    /\ \A i \in DOMAIN exec[e].calls : exec[e].calls[i] # "allowance threw"
    /\ exec' = [exec EXCEPT ![e].calls = @ \o <<"allowance threw", "allowance">>]
    /\ UNCHANGED <<config, otherTools>>
    /\ LedgerUntouched
    /\ AdapterUntouched

\* The allowance read throws.
AllowanceReadFails(e, error) ==
    /\ exec[e].pc = "readingAllowance"
    /\ Catch(e, [exec[e] EXCEPT !.calls = Append(@, "allowance threw")], error)
    /\ UNCHANGED <<config, otherTools>>
    /\ AdapterUntouched

\* A handler that bridges as soon as the approval is submitted.
ApprovalSubmittedNoWait(e) ==
    /\ exec[e].pc = "approving"
    /\ CallBridge(e, [exec[e] EXCEPT !.calls = Append(@, "approve returned")])
    /\ UNCHANGED <<config, otherTools>>
    /\ AdapterUntouched

\* writeContract returns the approval's hash; the handler waits for the
\* receipt.
ApprovalSubmitted(e) ==
    /\ exec[e].pc = "approving"
    /\ exec' = [exec EXCEPT ![e].pc = "confirming",
                            ![e].confirmations = 0,
                            ![e].calls = @ \o <<"approve returned", "waitForTransactionReceipt">>]
    /\ UNCHANGED <<config, otherTools>>
    /\ LedgerUntouched
    /\ AdapterUntouched

\* writeContract throws.
ApprovalFails(e, error) ==
    /\ exec[e].pc = "approving"
    /\ Catch(e, [exec[e] EXCEPT !.calls = Append(@, "approve threw")], error)
    /\ UNCHANGED <<config, otherTools>>
    /\ AdapterUntouched

\* The chain confirms the approval once more.
BlockMined(e) ==
    /\ exec[e].pc = "confirming"
    /\ exec[e].confirmations < Confirmations
    /\ exec' = [exec EXCEPT ![e].confirmations = @ + 1]
    /\ UNCHANGED <<config, otherTools>>
    /\ LedgerUntouched
    /\ AdapterUntouched

\* waitForTransactionReceipt resolves once the confirmations are there.
ReceiptObserved(e) ==
    /\ exec[e].pc = "confirming"
    /\ exec[e].confirmations >= Confirmations
    /\ CallBridge(e, [exec[e] EXCEPT !.calls = Append(@, "receipt")])
    /\ UNCHANGED <<config, otherTools>>
    /\ AdapterUntouched

\* waitForTransactionReceipt throws.
ReceiptWaitFails(e, error) ==
    /\ exec[e].pc = "confirming"
    /\ Catch(e, [exec[e] EXCEPT !.calls = Append(@, "waitForTransactionReceipt threw")], error)
    /\ UNCHANGED <<config, otherTools>>
    /\ AdapterUntouched

\* A handler that records completed only when a transaction hash came back.
FinishCompletedOnlyWithHash(e, x, bridgeResult) ==
    LET req == x.req[1]
        known == bridgeResult.txHash # Undefined
        data  == [txHash |-> IF known THEN bridgeResult.txHash ELSE "",
                  fromChainId |-> req.fromChainId, toChainId |-> req.toChainId,
                  token |-> x.tokenUpper,
                  amount |-> ToString10(x.rawAmount[1]),
                  status |-> IF known THEN "completed" ELSE "failed",
                  error |-> bridgeResult.error]
    IN  /\ WriteOperation(x.operationId[1], data)
        /\ exec' = [exec EXCEPT ![e] =
                       [x EXCEPT !.pc = "done",
                                 !.wrote = <<data>>,
                                 !.response = <<[isError |-> ~bridgeResult.success,
                                                 operationId |-> x.operationId,
                                                 success |-> <<bridgeResult.success>>,
                                                 error |-> bridgeResult.error]>>]]

\* The end of the try block: the record and the response for what
\* nexus.bridge returned.  x is the call's state when it returns.
Finish(e, x, bridgeResult) ==
    LET req  == x.req[1]
        data == [txHash |-> IF bridgeResult.txHash = Undefined
                            THEN "" ELSE bridgeResult.txHash,
                 fromChainId |-> req.fromChainId, toChainId |-> req.toChainId,
                 token |-> x.tokenUpper,
                 amount |-> ToString10(x.rawAmount[1]),
                 status |-> IF bridgeResult.success THEN "completed" ELSE "failed",
                 error |-> bridgeResult.error]
    IN  /\ WriteOperation(x.operationId[1], data)
        /\ exec' = [exec EXCEPT ![e] =
                       [x EXCEPT !.pc = "done",
                                 !.wrote = <<data>>,
                                 !.response = <<[isError |-> ~bridgeResult.success,
                                                 operationId |-> x.operationId,
                                                 success |-> <<bridgeResult.success>>,
                                                 error |-> bridgeResult.error]>>]]

\* The engine's bridge resolves: NexusService.bridge returns success.
BridgeResolves(e, sdkResult) ==
    /\ exec[e].pc = "bridging"
    /\ Finish(e, [exec[e] EXCEPT !.engine = <<[outcome |-> "resolved", value |-> sdkResult]>>],
              [success |-> TRUE, explorerUrl |-> sdkResult.explorerUrl,
               txHash |-> sdkResult.txHash, error |-> Undefined])
    /\ UNCHANGED <<config, otherTools>>
    /\ AdapterUntouched

\* The engine's bridge throws: NexusService.bridge returns the failure.
BridgeThrows(e, error) ==
    /\ exec[e].pc = "bridging"
    /\ Finish(e, [exec[e] EXCEPT !.engine = <<[outcome |-> "threw", value |-> error]>>],
              [success |-> FALSE, explorerUrl |-> Undefined, txHash |-> Undefined,
               error |-> ErrorMessage(error, "Bridge operation failed")])
    /\ UNCHANGED <<config, otherTools>>
    /\ AdapterUntouched

\* During its transfer the engine asks the allowance hook about sources.
AllowanceHookFires(e, sources) ==
    /\ exec[e].pc = "bridging"
    /\ "onAllowance" \in exec[e].hooks
    /\ exec' = [exec EXCEPT ![e].hookAnswer =
                   <<[hook |-> "onAllowance", sources |-> sources,
                      answer |-> OnAllowanceHook(sources)]>>]
    /\ LedgerUntouched
    /\ UNCHANGED <<config, otherTools>>
    /\ AdapterUntouched

\* During its transfer the engine asks the intent hook.
IntentHookFires(e) ==
    /\ exec[e].pc = "bridging"
    /\ "onIntent" \in exec[e].hooks
    /\ exec' = [exec EXCEPT ![e].hookAnswer =
                   <<[hook |-> "onIntent", sources |-> <<>>, answer |-> OnIntentHook]>>]
    /\ LedgerUntouched
    /\ UNCHANGED <<config, otherTools>>
    /\ AdapterUntouched

NextBridge ==
    \/ Tick
    \/ \E e \in OneAtATime, req \in Requests, random \in Randoms : ExecuteBridge(e, req, random)
    \/ \E e \in OneAtATime, outcome \in InitializeOutcomes : InitializeReturns(e, outcome)
    \/ \E e \in OneAtATime, a \in PossibleAllowances : AllowanceReturns(e, a)
    \/ \E e \in OneAtATime, error \in Errors : AllowanceReadFails(e, error)
    \/ \E e \in OneAtATime : ApprovalSubmitted(e)
    \/ \E e \in OneAtATime, error \in Errors : ApprovalFails(e, error)
    \/ \E e \in OneAtATime : BlockMined(e)
    \/ \E e \in OneAtATime : ReceiptObserved(e)
    \/ \E e \in OneAtATime, error \in Errors : ReceiptWaitFails(e, error)
    \/ \E e \in OneAtATime, r \in EngineResults : BridgeResolves(e, r)
    \/ \E e \in OneAtATime, error \in Errors : BridgeThrows(e, error)
    \/ \E e \in OneAtATime, sources \in SourceLists : AllowanceHookFires(e, sources)
    \/ \E e \in OneAtATime : IntentHookFires(e)
    \/ \E id \in StatusQueries : GetBridgeStatus(id)

BridgeStart == InitBridge /\ InitLedger /\ IdleAdapter

SpecBridge == BridgeStart /\ [][NextBridge]_vars


(***************************************************************************)
(* The get_bridge_quote tool.                                              *)
(***************************************************************************)
\* The amounts quotes are asked for: a whole part followed by a fraction
\* part.
WholeParts ==
    { <<"0">>,
      <<"1">>,
      <<"2", "5">>,
      <<"1", "0", "0", "0">>,
      <<"4", "2", "9", "4", "9", "6", "8", "9", "8", "7">>,
      <<"9", "0", "0", "7", "1", "9", "9", "2", "5", "4">>,
      <<"1", "2", "3", "4", "5", "6", "7", "8", "9", "0", "1", "2">> }

FractionParts ==
    { <<>>,
      <<".", "5">>,
      <<".", "0", "0", "0", "0", "0", "1">>,
      <<".", "3", "8", "0", "8", "1", "8">>,
      <<".", "7", "4", "0", "9", "9", "3">>,
      <<".", "0", "0", "0", "0", "0", "0", "4">>,
      <<".", "0", "0", "0", "1", "2", "4", "5">>,
      <<".", "0", "0", "0", "0", "0", "0", "4", "9", "9", "9", "9", "9", "9", "9", "9", "9", "9", "9", "9", "9">> }

QuoteAmounts == {w \o f : w \in WholeParts, f \in FractionParts}

\* The arguments get_bridge_quote is called with: the requests of
\* execute_bridge, and every amount on a mainnet and on a testnet route.
QuoteRequests ==
    Requests
    \cup {[fromChainId |-> 10, toChainId |-> 8453, token |-> "USDC", amount |-> a] :
             a \in QuoteAmounts}
    \cup {[fromChainId |-> 84532, toChainId |-> 11155420, token |-> "usdc", amount |-> a] :
             a \in QuoteAmounts}

\* An error response of the tool.
QuoteError(message) ==
    [isError |-> TRUE, thrown |-> FALSE, error |-> message, body |-> <<>>]

\* The handler of get_bridge_quote.  The fee texts of the quote are left
\* out of the response.
GetBridgeQuote(req) ==
    LET tokenUpper == ToUpperCase(req.token)
    IN  /\ quote' =
               IF getChainById(req.fromChainId, isTestnet) = <<>>
               THEN QuoteError("Source chain not supported")
               ELSE IF getChainById(req.toChainId, isTestnet) = <<>>
               THEN QuoteError("Destination chain not supported")
               ELSE IF TokenConfig(tokenUpper) = <<>>
               THEN QuoteError("Token is not supported")
               ELSE IF ~HasTokenAddress(tokenUpper, req.fromChainId)
               THEN QuoteError("Token is not available on the source chain")
               ELSE IF ~HasTokenAddress(tokenUpper, req.toChainId)
               THEN QuoteError("Token is not available on the destination chain")
               ELSE LET rawAmount == RawAmountBig(req.amount, TokenConfig(tokenUpper)[1].decimals)
                    IN  IF rawAmount = <<>>
                        THEN [isError |-> TRUE, thrown |-> TRUE,
                              error |-> "The number NaN cannot be converted to a BigInt",
                              body |-> <<>>]
                        ELSE [isError |-> FALSE, thrown |-> FALSE, error |-> Undefined,
                              body |-> <<[fromChain |-> req.fromChainId,
                                          toChain |-> req.toChainId,
                                          token |-> tokenUpper,
                                          amount |-> req.amount,
                                          decimals |-> TokenConfig(tokenUpper)[1].decimals,
                                          rawAmount |-> DigitsOfBig(rawAmount[1])]>>]
        /\ UNCHANGED <<config, exec, chainsAnswer, service, providers, twin, balances>>
        /\ LedgerUntouched
        /\ AdapterUntouched

NextQuote == \E req \in QuoteRequests : GetBridgeQuote(req)

SpecQuote == BridgeStart /\ [][NextQuote]_vars

(***************************************************************************)
(* The service with the get_chains tool, and two adapters on their own.    *)
(***************************************************************************)
NextService ==
    \/ \E network \in NetworkArguments : GetNexusService(network)
    \/ \E outcome \in InitializeOutcomes : ServiceInitialize(outcome)
    \/ IsReady
    \/ \E method \in ServiceMethods, engineThrows \in BOOLEAN : ServiceCall(method, engineThrows)
    \/ \E network \in NetworkArguments : GetChains(network)

SpecService == BridgeStart /\ [][NextService]_vars

\* The inputs of two calls in flight at once: a route and an amount that
\* pass validation, how initialize ends, an allowance read that needs no
\* approval, and what a failing call throws.
ConcurrentRequests ==
    { [fromChainId |-> 84532, toChainId |-> 11155420, token |-> "usdc", amount |-> Amount1p5] }
ConcurrentOutcomes == {"initialized", "initialize throws"}
ConcurrentAllowances == {2 * 1500000}
ConcurrentErrors == { [isError |-> TRUE, message |-> "Insufficient balance"] }
ConcurrentResults == { [explorerUrl |-> "https://explorer/intent/1", txHash |-> "0xabc"] }

NextConcurrent ==
    \/ Tick
    \/ \E e \in Executions, req \in ConcurrentRequests, random \in Randoms :
           ExecuteBridge(e, req, random)
    \/ \E e \in Executions, outcome \in ConcurrentOutcomes : InitializeReturns(e, outcome)
    \/ \E e \in Executions, a \in ConcurrentAllowances : AllowanceReturns(e, a)
    \/ \E e \in Executions, r \in ConcurrentResults : BridgeResolves(e, r)
    \/ \E e \in Executions, error \in ConcurrentErrors : BridgeThrows(e, error)
    \/ \E id \in StatusQueries : GetBridgeStatus(id)

ConcurrentStart ==
    /\ config = [PRIVATE_KEY |-> ValidKey, NETWORK_MODE |-> "testnet"]
    /\ exec = [e \in Executions |-> IdleExecution]
    /\ quote = NoQuote
    /\ balances = NoBalances
    /\ IdleTools
    /\ InitLedger
    /\ IdleAdapter

SpecConcurrent == ConcurrentStart /\ [][NextConcurrent]_vars

\* Two runs that differ in the key only: call e1 is made of a server whose
\* PRIVATE_KEY is one key and call e2 of a server whose PRIVATE_KEY is
\* another, each with every input and every answer of its surroundings the
\* other can have.
TwoRunsStart ==
    /\ config = [PRIVATE_KEY |-> ValidKey, NETWORK_MODE |-> "testnet"]
    /\ exec = [e \in Executions |-> IdleExecution]
    /\ quote = NoQuote
    /\ balances = NoBalances
    /\ chainsAnswer = NoChainsAnswer
    /\ service = NoService
    /\ twin = <<OtherKey>>
    /\ IdleProviders
    /\ InitLedger
    /\ IdleAdapter

SpecTwoRuns == TwoRunsStart /\ [][NextConcurrent]_vars

ProvidersStart ==
    /\ config = [PRIVATE_KEY |-> ValidKey, NETWORK_MODE |-> "testnet"]
    /\ exec = [e \in Executions |-> IdleExecution]
    /\ quote = NoQuote
    /\ balances = NoBalances
    /\ chainsAnswer = NoChainsAnswer
    /\ service = NoService
    /\ twin = <<>>
    /\ InitProviders
    /\ InitLedger
    /\ IdleAdapter

SpecProviders == ProvidersStart /\ [][NextProviders]_vars

(***************************************************************************)
(* Properties of the adapter.                                              *)
(***************************************************************************)
SwitchMethod == "wallet_switchEthereumChain"
AddMethod == "wallet_addEthereumChain"

Range(f) == {f[i] : i \in DOMAIN f}

\* Number of calls of handler h among the calls cs.
Deliveries(cs, h) == Cardinality({i \in DOMAIN cs : cs[i].handler = h})

\* Number of registrations of handler h for the event.
Registrations(ls, event, h) == Cardinality({i \in DOMAIN ls[event] : ls[event][i] = h})

\* v is the hex encoding of n: 0x, then lower-case digits without a leading
\* zero, reading back as n.
IsHexOf(v, n) ==
    /\ Len(v) >= 3
    /\ v[1] = "0" /\ v[2] = "x"
    /\ \A i \in 3..Len(v) : v[i] \in Range(HexDigits)
    /\ (Len(v) > 3 => v[3] # "0")
    /\ ParseInt16(v) = n

\* C1: a switch request for an id that is not in the registry is rejected
\* with an error whose code is 4902, leaves the pointer (and so the answer of
\* a following eth_chainId) and the registry as they were, and calls no
\* listener.
C1_UnknownChainSwitchRefused ==
    [][ (lastReq'.method = SwitchMethod /\ lastReq'.id \notin DOMAIN chainMap)
        => /\ ~result'.ok
           /\ result'.code = 4902
           /\ currentChainId' = currentChainId
           /\ HexString(currentChainId') = HexString(currentChainId)
           /\ chainMap' = chainMap
           /\ emitted' = <<>> ]_vars

\* A refused switch to chain 1 while a chainChanged listener is registered.
C1_Witness ==
    /\ lastReq.method = SwitchMethod
    /\ lastReq.id = 1
    /\ ~result.ok
    /\ result.code = 4902
    /\ listeners["chainChanged"] # <<>>

\* C2 as stated: a successful switch calls every handler that is subscribed
\* to chainChanged exactly once, and no other handler.
C2_EachSubscribedHandlerCalledOnce ==
    (lastReq.method = SwitchMethod /\ result.ok)
    => \A h \in Handlers :
          Deliveries(emitted, h) =
              IF h \in Range(listeners["chainChanged"]) THEN 1 ELSE 0

\* C2, amended: after a successful switch to X the pointer is X until the
\* next successful switch and eth_chainId answers the hex encoding of X; a
\* successful switch calls each handler once per registration it holds for
\* chainChanged (on calls not undone by removeListener), every call carrying
\* the hex encoding of the new id, and no other operation calls a listener.
C2_CalledOncePerRegistration ==
    /\ switchedTo # <<>> => currentChainId = switchedTo[1]
    /\ (lastReq.method = "eth_chainId" /\ switchedTo # <<>>)
       => result.ok /\ IsHexOf(result.value, switchedTo[1])
    /\ (lastReq.method = SwitchMethod /\ result.ok)
       => /\ \A h \in Handlers :
                Deliveries(emitted, h) = Registrations(listeners, "chainChanged", h)
          /\ Len(emitted) = Len(listeners["chainChanged"])
          /\ \A i \in DOMAIN emitted :
                /\ emitted[i].handler = listeners["chainChanged"][i]
                /\ IsHexOf(emitted[i].payload, lastReq.id)
    /\ (lastReq.method # SwitchMethod \/ ~result.ok) => emitted = <<>>

\* A successful switch with one handler registered twice: it was called twice.
C2_Witness ==
    /\ lastReq.method = SwitchMethod
    /\ result.ok
    /\ listeners["chainChanged"] = <<"h1", "h1">>
    /\ Len(emitted) = 2

\* C3: the pointer is always a key of the registry; it is the first chain
\* given at construction until a switch succeeds.
C3_PointerIsRegistered ==
    /\ currentChainId \in DOMAIN chainMap
    /\ switchedTo = <<>> => currentChainId = chains[1].id

\* The pointer names a chain that was registered at run time.
C3_Witness ==
    /\ currentChainId = 1
    /\ currentChainId \notin {chains[i].id : i \in DOMAIN chains}
    /\ lastReq.method = "eth_getBalance"

\* C4: no step removes or changes a registry entry; a registration request
\* answers null, and after it the registry holds the entries it held before
\* plus, at most, the requested id.
C4_RegistrationIdempotent ==
    [][ /\ \A id \in DOMAIN chainMap :
              id \in DOMAIN chainMap' /\ chainMap'[id] = chainMap[id]
        /\ lastReq'.method = AddMethod
           => /\ result'.ok
              /\ result'.kind = "null"
              /\ DOMAIN chainMap' = (DOMAIN chainMap) \cup {lastReq'.id}
        /\ lastReq'.method # AddMethod => chainMap' = chainMap ]_vars

\* A registration request for the statically seeded Base Sepolia, whose
\* entry still has the name and the endpoint given at construction, after a
\* run-time registration of chain 1.
C4_Witness ==
    /\ lastReq.method = AddMethod
    /\ lastReq.id = 84532
    /\ chainMap[84532] = [name |-> "Base Sepolia", rpcUrl |-> "https://sepolia.base.org"]
    /\ 1 \in DOMAIN chainMap

\* C5: a switch to an unregistered id is refused with code 4902; a
\* registration request for that id then succeeds; and the next switch to it
\* succeeds, after which eth_chainId answers the id in hex (0x1 for chain 1).
C5_RecoverableSwitch ==
    [][ /\ (lastReq'.method = SwitchMethod /\ lastReq'.id \notin DOMAIN chainMap)
           => ~result'.ok /\ result'.code = 4902
        /\ (lastReq'.method = AddMethod /\ RecoverOf(lastReq'.id) = "failed")
           => result'.ok /\ RecoverIn(recover', lastReq'.id) = "added"
        /\ (lastReq'.method = SwitchMethod /\ RecoverOf(lastReq'.id) = "added")
           => result'.ok /\ currentChainId' = lastReq'.id
        /\ (/\ lastReq'.method = "eth_chainId"
            /\ lastReq.method = SwitchMethod
            /\ RecoverOf(lastReq.id) = "added")
           => /\ IsHexOf(result'.value, lastReq.id)
              /\ lastReq.id = 1 => result'.value = <<"0", "x", "1">> ]_vars

\* The spec's scenario: constructed with Base Sepolia only, the switch to
\* chain 1 was refused, chain 1 was registered, and eth_chainId now answers 0x1.
C5_Witness ==
    /\ chains = <<BaseSepolia>>
    /\ RecoverOf(1) = "added"
    /\ lastReq.method = "eth_chainId"
    /\ result.value = <<"0", "x", "1">>

(***************************************************************************)
(* Properties of the ledger.                                               *)
(***************************************************************************)
\* C6: for every operation id, a write leaves createdAt as the first write
\* for that id set it (the clock reading of that write), and sets updatedAt
\* to a value no earlier than the updatedAt before it and no earlier than
\* createdAt. (Date.now() is taken not to go back between two calls.)
C6_CreatedAtKeptUpdatedAtMonotone ==
    [][ /\ \A id \in DOMAIN operations :
              /\ id \in DOMAIN operations'
              /\ operations'[id].createdAt = operations[id].createdAt
              /\ operations'[id].updatedAt >= operations[id].updatedAt
        /\ \A id \in DOMAIN operations' :
              /\ operations'[id].updatedAt >= operations'[id].createdAt
              /\ id \notin DOMAIN operations
                 => operations'[id].createdAt = now /\ operations'[id].updatedAt = now ]_vars

\* A record written again at a later clock reading than its first write.
C6_Witness ==
    /\ ledgerOp.kind = "report"
    /\ ledgerOp.returned[1].createdAt = 1
    /\ ledgerOp.returned[1].updatedAt = 3
    /\ ledgerOp.returned[1].status = "completed"

\* C7: getAllOperations returns every record of the ledger exactly once, in
\* an order in which no entry's updatedAt is smaller than that of a later one.
C7_ListCompleteAndDescending ==
    ledgerOp.kind = "list"
    => LET r == ledgerOp.returned
       IN  /\ Len(r) = Cardinality(DOMAIN operations)
           /\ {r[i].id : i \in DOMAIN r} = DOMAIN operations
           /\ \A i \in DOMAIN r : r[i] = operations[r[i].id]
           /\ \A i, j \in DOMAIN r : i < j => r[i].updatedAt >= r[j].updatedAt

\* A list of two records in which the one inserted first comes last, because
\* the other was updated later.
C7_Witness ==
    /\ ledgerOp.kind = "list"
    /\ Len(ledgerOp.returned) = 2
    /\ ledgerOp.returned[2].id = opOrder[1]
    /\ ledgerOp.returned[1].updatedAt > ledgerOp.returned[2].updatedAt

\* C8: getBridgeStatus returns nothing for an id that was never reported,
\* and for a reported id the record under that id carrying the fields of the
\* most recent reportBridgeStatus call for it; no step removes an id.
C8_GetReturnsLastReport ==
    /\ [](ledgerOp.kind = "get"
          => IF ledgerOp.id \in DOMAIN written
             THEN /\ Len(ledgerOp.returned) = 1
                  /\ ledgerOp.returned[1].id = ledgerOp.id
                  /\ DataOf(ledgerOp.returned[1]) = written[ledgerOp.id]
             ELSE ledgerOp.returned = <<>>)
    /\ [][(DOMAIN operations) \subseteq (DOMAIN operations')]_vars

\* A lookup of an id reported twice, first with a transaction hash and then
\* as failed without one: the record returned is the failed one.
C8_Witness ==
    /\ ledgerOp.kind = "get"
    /\ ledgerOp.returned # <<>>
    /\ ledgerOp.returned[1].status = "failed"
    /\ ledgerOp.returned[1].txHash = ""
    /\ ledgerOp.returned[1].createdAt < ledgerOp.returned[1].updatedAt

(***************************************************************************)
(* Properties of execute_bridge.                                           *)
(***************************************************************************)
\* The positions of a call in the log of an execution.
Positions(e, call) == {i \in DOMAIN exec[e].calls : exec[e].calls[i] = call}

Called(e, call) == Positions(e, call) # {}

\* C9: in an execution whose allowance read returned at least twice the raw
\* amount, the approve transaction is never submitted.
C9_NoApprovalWhenAllowanceCovers ==
    \A e \in Executions :
        (/\ exec[e].allowance # <<>>
         /\ exec[e].allowance[1] >= 2 * exec[e].rawAmount[1])
        => ~Called(e, "approve")

\* An execution read an allowance of at least twice a positive raw amount
\* and went on to the engine's bridge call.
C9_Witness ==
    \E e \in Executions :
        /\ exec[e].allowance # <<>>
        /\ exec[e].rawAmount[1] > 0
        /\ exec[e].allowance[1] >= 2 * exec[e].rawAmount[1]
        /\ Called(e, "sdk.bridge")
        /\ exec[e].pc = "done"

\* C10: in an execution that submitted an approval, the engine's bridge is
\* called only after the approval's receipt was observed with two
\* confirmations, and it is never called once the approval or the wait for
\* its receipt has thrown.
C10_TransferOnlyAfterConfirmedApproval ==
    \A e \in Executions :
        /\ (Called(e, "approve") /\ Called(e, "sdk.bridge"))
           => /\ exec[e].confirmations >= 2
              /\ \A b \in Positions(e, "sdk.bridge") :
                     \E a \in Positions(e, "approve"), r \in Positions(e, "receipt") :
                         a < r /\ r < b
        /\ (Called(e, "approve threw") \/ Called(e, "waitForTransactionReceipt threw"))
           => (~Called(e, "sdk.bridge") /\ ~Called(e, "nexus.bridge"))

\* An execution submitted an approval, saw its receipt and called the
\* engine's bridge.
C10_Witness ==
    \E e \in Executions :
        /\ Called(e, "approve")
        /\ Called(e, "receipt")
        /\ Called(e, "sdk.bridge")
        /\ exec[e].pc = "done"

\* The ledger's record of an execution that has an operation id.
RecordOf(e) == operations[exec[e].operationId[1]]

HasRecord(e) ==
    exec[e].operationId # <<>> /\ exec[e].operationId[1] \in DOMAIN operations

\* C11: once the engine's bridge call of an execution has ended, the ledger
\* holds the operation's record; its status is completed exactly when the
\* call resolved and failed when it threw.  A resolved call leaves the
\* engine's transaction hash and the raw amount in decimal digits (25000000
\* for 25 USDC); a thrown Error leaves its message, any other thrown value a
\* non-empty error, and both leave an empty txHash.
C11_LedgerReflectsEngineOutcome ==
    \A e \in Executions :
        exec[e].engine # <<>> =>
            /\ HasRecord(e)
            /\ RecordOf(e).status \in {"completed", "failed"}
            /\ RecordOf(e).status = "completed" <=> exec[e].engine[1].outcome = "resolved"
            /\ exec[e].engine[1].outcome = "resolved" =>
                   /\ exec[e].engine[1].value.txHash # Undefined
                          => RecordOf(e).txHash = exec[e].engine[1].value.txHash
                   /\ \A i \in DOMAIN RecordOf(e).amount : IsDecimalDigit(RecordOf(e).amount[i])
                   /\ DecimalValue(RecordOf(e).amount) = exec[e].rawAmount[1]
                   /\ exec[e].req[1].amount = Amount25 => RecordOf(e).amount = Amount25000000
            /\ exec[e].engine[1].outcome = "threw" =>
                   /\ RecordOf(e).txHash = ""
                   /\ RecordOf(e).error \notin {"", Undefined}
                   /\ exec[e].engine[1].value.isError
                          => RecordOf(e).error = exec[e].engine[1].value.message

\* execute(10, 8453, USDC, 25) ended with the engine returning hash 0xabc and
\* the record completed with amount 25000000.
C11_Witness ==
    \E e \in Executions :
        /\ exec[e].engine # <<>>
        /\ exec[e].engine[1].outcome = "resolved"
        /\ exec[e].req[1] = [fromChainId |-> 10, toChainId |-> 8453,
                             token |-> "USDC", amount |-> Amount25]
        /\ RecordOf(e).status = "completed"
        /\ RecordOf(e).txHash = "0xabc"
        /\ RecordOf(e).amount = Amount25000000

\* Whether the chain id is none of the chains of the active network mode.
Unsupported(chainId) ==
    \A i \in DOMAIN getSupportedChains(isTestnet) :
        getSupportedChains(isTestnet)[i] # chainId

\* The errors the handler answers an unsupported chain with.
ChainErrors == {"Source chain not supported", "Destination chain not supported"}

\* C13: a call of execute_bridge whose source or destination chain is not
\* supported in the active network mode returns an error (the chain error
\* whenever a key is configured), writes nothing to the ledger, constructs no
\* adapter and no engine and makes no outbound call.
C13_UnsupportedChainRejected ==
    [][\A e \in Executions, req \in Requests, random \in Randoms :
          /\ ExecuteBridge(e, req, random)
          /\ Unsupported(req.fromChainId) \/ Unsupported(req.toChainId)
          => /\ exec'[e].pc = "done"
             /\ exec'[e].response # <<>>
             /\ exec'[e].response[1].isError
             /\ config.PRIVATE_KEY # Undefined => exec'[e].response[1].error \in ChainErrors
             /\ exec'[e].calls = <<>>
             /\ exec'[e].providerChains = <<>>
             /\ exec'[e].sdk = "null"
             /\ UNCHANGED ledgerVars]_vars

\* A call was answered with the destination chain error, with none of the
\* chains of the active mode being 999999.
C13_Witness ==
    \E e \in Executions :
        /\ exec[e].pc = "done"
        /\ exec[e].response[1].error = "Destination chain not supported"
        /\ Unsupported(999999)
        /\ exec[e].calls = <<>>

\* C14: a call of execute_bridge for a supported token that has no address
\* on the source chain or on the destination chain returns an error at once,
\* having made no outbound call and constructed no adapter and no engine.
C14_UnavailableTokenRejected ==
    [][\A e \in Executions, req \in Requests, random \in Randoms :
          /\ ExecuteBridge(e, req, random)
          /\ TokenConfig(ToUpperCase(req.token)) # <<>>
          /\ \/ ~HasTokenAddress(ToUpperCase(req.token), req.fromChainId)
             \/ ~HasTokenAddress(ToUpperCase(req.token), req.toChainId)
          => /\ exec'[e].pc = "done"
             /\ exec'[e].response # <<>>
             /\ exec'[e].response[1].isError
             /\ exec'[e].calls = <<>>
             /\ exec'[e].sdk = "null"]_vars

\* C15: with no signing key configured, every call of execute_bridge is
\* answered at once with the missing-key error, whatever its chains and
\* token, having resolved no token, made no outbound call and constructed no
\* adapter and no engine.
C15_MissingKeyRejectedFirst ==
    [][\A e \in Executions, req \in Requests, random \in Randoms :
          /\ ExecuteBridge(e, req, random)
          /\ config.PRIVATE_KEY = Undefined
          => /\ exec'[e].pc = "done"
             /\ exec'[e].response # <<>>
             /\ exec'[e].response[1].isError
             /\ exec'[e].response[1].error = "PRIVATE_KEY is not set in environment"
             /\ exec'[e].tokenUpper = ""
             /\ exec'[e].calls = <<>>
             /\ exec'[e].providerChains = <<>>
             /\ exec'[e].sdk = "null"]_vars

\* A call was answered with the missing-key error under a configuration
\* without a key.
C15_Witness ==
    \E e \in Executions :
        /\ config.PRIVATE_KEY = Undefined
        /\ exec[e].pc = "done"
        /\ exec[e].response[1].error = "PRIVATE_KEY is not set in environment"
        /\ exec[e].calls = <<>>

\* Whether the call has returned a failure.
EndedInFailure(e) ==
    exec[e].pc = "done" /\ exec[e].response # <<>> /\ exec[e].response[1].isError

\* C16 as stated: every call of execute_bridge that ended in failure has a
\* ledger record, which carries a non-empty error.
C16_EveryFailureIsRecorded ==
    \A e \in Executions :
        EndedInFailure(e) =>
            /\ HasRecord(e)
            /\ RecordOf(e).error \notin {"", Undefined}

\* C16: a call that failed after its operation id was generated (the
\* adapter's construction, the allowance guard or the engine failed) has a
\* ledger record under that id, failed and carrying the error the response
\* carries, which is not empty; a call rejected by validation has no
\* operation id, and the ledger holds records of generated ids only.
C16_FailureAfterIdIsRecorded ==
    /\ \A e \in Executions :
           EndedInFailure(e) =>
               IF exec[e].calls = <<>>
               THEN /\ exec[e].operationId = <<>>
                    /\ exec[e].response[1].operationId = <<>>
                    /\ exec[e].response[1].error \in
                           ChainErrors \cup {"PRIVATE_KEY is not set in environment",
                                             "Token is not supported"}
               ELSE /\ HasRecord(e)
                    /\ exec[e].response[1].operationId = exec[e].operationId
                    /\ RecordOf(e).status = "failed"
                    /\ RecordOf(e).error = exec[e].response[1].error
                    /\ RecordOf(e).error \notin {"", Undefined}
    /\ DOMAIN operations \subseteq
           {exec[e].operationId[1] : e \in {f \in Executions : exec[f].operationId # <<>>}}

\* A call failed in the approval and its failed record is in the ledger.
C16_Witness ==
    \E e \in Executions :
        /\ EndedInFailure(e)
        /\ Called(e, "approve threw")
        /\ HasRecord(e)
        /\ RecordOf(e).status = "failed"

\* The message the handler's catch block derives from what it caught.
CaughtMessage(e) ==
    IF exec[e].caught[1].isError THEN exec[e].caught[1].message
    ELSE "Bridge execution failed"

\* The call returned an error with its operation id, and the ledger holds the
\* failed record with the given message under that id.
FailedWith(e, message) ==
    /\ exec[e].response[1].isError
    /\ exec[e].response[1].operationId = exec[e].operationId
    /\ exec[e].response[1].error = message
    /\ HasRecord(e)
    /\ RecordOf(e).status = "failed"
    /\ RecordOf(e).error = message

\* C17 as stated: the operation id exists before the adapter is constructed,
\* and a call in which an error was raised (constructing the adapter,
\* initialising the engine, in the allowance guard or calling the engine)
\* ends with an error result and a failed record carrying that error's
\* message; the engine's own failure is a result with success false.
C17_EveryRaisedErrorIsRecorded ==
    \A e \in Executions :
        /\ exec[e].calls # <<>> => exec[e].operationId # <<>>
        /\ exec[e].pc = "done" /\ exec[e].swallowed # <<>>
               => FailedWith(e, exec[e].swallowed[1].message)
        /\ exec[e].pc = "done" /\ exec[e].swallowed = <<>> /\ exec[e].caught # <<>>
               => FailedWith(e, CaughtMessage(e))
        /\ exec[e].pc = "done" /\ exec[e].engine # <<>> /\ exec[e].engine[1].outcome = "threw"
               => exec[e].response[1].success = <<FALSE>>

\* C17: the operation id exists before the adapter is constructed; an error
\* that reaches the handler's catch block ends the call with an error result
\* and a failed record carrying its message (a fixed text for a thrown value
\* that is no Error); an error of the engine's transfer ends it with success
\* false and the message; and an error raised while initialising the engine
\* is dropped by initialize, the call failing later without a transfer: in
\* nexus.bridge on the service not being initialised, unless an earlier step
\* of the handler threw.
C17_CaughtErrorsAreRecorded ==
    \A e \in Executions :
        /\ exec[e].calls # <<>> => exec[e].operationId # <<>>
        /\ exec[e].pc = "done" /\ exec[e].caught # <<>> => FailedWith(e, CaughtMessage(e))
        /\ exec[e].pc = "done" /\ exec[e].engine # <<>> /\ exec[e].engine[1].outcome = "threw"
               => /\ exec[e].response[1].success = <<FALSE>>
                  /\ FailedWith(e, IF exec[e].engine[1].value.isError
                                   THEN exec[e].engine[1].value.message
                                   ELSE "Bridge operation failed")
        /\ exec[e].pc = "done" /\ exec[e].swallowed # <<>>
               => /\ exec[e].caught # <<>>
                  /\ ~Called(e, "sdk.bridge")
                  /\ Called(e, "nexus.bridge")
                         => exec[e].caught[1] = NewError("NexusService not initialized")

\* The engine's initialize threw, and the call ended with the failed record
\* of the service not being initialised.
C17_Witness ==
    \E e \in Executions :
        /\ exec[e].pc = "done"
        /\ exec[e].swallowed # <<>>
        /\ FailedWith(e, "NexusService not initialized")

\* C18: the engine's transfer is called only when both hooks are registered
\* with the engine of that execution, the allowance hook answers "max" for
\* every source it is asked about, and the intent hook allows.
C18_TransferOnlyWithHooks ==
    \A e \in Executions :
        /\ Called(e, "sdk.bridge") =>
               /\ exec[e].hooks = {"onAllowance", "onIntent"}
               /\ exec[e].initialized
               /\ exec[e].sdk = "NexusSDK"
        /\ \A i \in DOMAIN exec[e].hookAnswer :
               LET asked == exec[e].hookAnswer[i]
               IN  IF asked.hook = "onAllowance"
                   THEN /\ Len(asked.answer) = Len(asked.sources)
                        /\ \A j \in DOMAIN asked.sources : asked.answer[j] = "max"
                   ELSE asked.answer = "allow"

\* The engine's transfer is under way and the allowance hook has answered for
\* two sources.
C18_Witness ==
    \E e \in Executions :
        /\ Called(e, "sdk.bridge")
        /\ exec[e].hookAnswer # <<>>
        /\ exec[e].hookAnswer[1].hook = "onAllowance"
        /\ exec[e].hookAnswer[1].answer = <<"max", "max">>

(***************************************************************************)
(* Properties of the adapter's signing requests.                           *)
(***************************************************************************)
\* Whether the last request was answered through the read-only client of the
\* current chain, by the network's answer or by its failure.
ByPublicClient ==
    result.kind = "rpc" \/ (~result.ok /\ result.value = <<"network error">>)

\* C19: an eth_sendTransaction request is not handed to the read-only client;
\* when it succeeds it returns the hash of the transaction the adapter's
\* account signed and sent on the current chain.
C19_SendTransactionSignedByAccount ==
    lastReq.method = "eth_sendTransaction" =>
        /\ ~ByPublicClient
        /\ result.ok => result.kind = "hash"

\* C20: a personal_sign or eth_sign request is not handed to the read-only
\* client; when it succeeds it returns the signature of the adapter's account
\* over the bytes supplied.
C20_PersonalSignSignedByAccount ==
    lastReq.method \in {"personal_sign", "eth_sign"} =>
        /\ ~ByPublicClient
        /\ result.ok => result.kind = "signature"

\* C21 as stated: a request the adapter has no case for is forwarded with its
\* method and its params as given to the client of the current chain, and
\* changes neither the pointer nor the registry.
C21_ForwardedVerbatim ==
    [][lastReq'.method \in PassthroughMethods =>
          /\ currentChainId' = currentChainId
          /\ chainMap' = chainMap
          /\ lastReq'.forwarded # <<>>
          /\ lastReq'.forwarded[1].method = lastReq'.method
          /\ lastReq'.forwarded[1].chain = currentChainId
          /\ lastReq'.forwarded[1].params.type = lastReq'.params.type
          /\ lastReq'.forwarded[1].params = lastReq'.params]_vars

\* C21: a request the adapter has no case for is forwarded with its method
\* unchanged and its params as an array (an array as given, an object as the
\* one element of an array, no params as the empty array) to the client of
\* the current chain, which after a successful switch is the chain switched
\* to; it changes neither the pointer nor the registry.
C21_ForwardedAsArray ==
    [][lastReq'.method \in PassthroughMethods =>
          /\ currentChainId' = currentChainId
          /\ chainMap' = chainMap
          /\ lastReq'.forwarded # <<>>
          /\ lastReq'.forwarded[1].method = lastReq'.method
          /\ lastReq'.forwarded[1].chain = currentChainId
          /\ switchedTo # <<>> => lastReq'.forwarded[1].chain = switchedTo[1]
          /\ result'.ok => result'.value = <<chainMap[currentChainId].rpcUrl>>
          /\ lastReq'.forwarded[1].params.type = "array"
          /\ lastReq'.forwarded[1].params.value =
                 IF lastReq'.params.type = "array" THEN lastReq'.params.value
                 ELSE IF lastReq'.params.type = "object" THEN <<lastReq'.params>>
                 ELSE <<>>]_vars

\* A request with an object as params was forwarded to OP Sepolia after a
\* switch away from the chain the adapter started on.
C21_Witness ==
    /\ lastReq.method = "eth_getBalance"
    /\ lastReq.params.type = "object"
    /\ switchedTo = <<11155420>>
    /\ chains[1].id # 11155420
    /\ lastReq.forwarded # <<>>
    /\ lastReq.forwarded[1].chain = 11155420

(***************************************************************************)
(* Properties of two adapters in use at once.                              *)
(***************************************************************************)
\* C22: the active chain pointer belongs to one adapter instance: a chain
\* switch requested of the adapter of one execution, whether it succeeds or
\* is refused, changes neither the pointer of the adapter of another
\* execution, nor what that adapter answers eth_chainId with, nor the
\* endpoint it forwards passthrough requests to.
C22_SwitchIsPerInstance ==
    [][\A e \in Executions, s \in SwitchChainIdStrings :
          ProviderSwitch(e, s) =>
              \A other \in Executions \ {e} :
                  /\ providers'[other].currentChainId = providers[other].currentChainId
                  /\ ChainIdAnswer(providers'[other]) = ChainIdAnswer(providers[other])
                  /\ PassthroughTarget(providers'[other]) = PassthroughTarget(providers[other])]_vars

\* Two adapters built with the same two chains: the first has switched to
\* Base Sepolia, and the second, asked afterwards or before, still forwards
\* to OP Sepolia.
C22_Witness ==
    /\ providers["e1"].chainMap = providers["e2"].chainMap
    /\ providers["e1"].switchedTo = <<84532>>
    /\ providers["e1"].lastReq.method = "eth_chainId"
    /\ providers["e1"].result = Returned("string", HexString(84532))
    /\ providers["e2"].switchedTo = <<>>
    /\ providers["e2"].lastReq.method = "eth_getBalance"
    /\ providers["e2"].lastReq.chain = 11155420
    /\ providers["e2"].result = Returned("list", <<"https://sepolia.optimism.io">>)

(***************************************************************************)
(* Properties of calls in flight at once.                                  *)
(***************************************************************************)
\* The operation id of call e is that of no other call.
OwnId(e) ==
    /\ exec[e].operationId # <<>>
    /\ \A other \in Executions \ {e} : exec[other].operationId # exec[e].operationId

\* The record op holds all of data, under id.
RecordHolds(op, id, data) ==
    /\ DOMAIN op = {"id", "txHash", "fromChainId", "toChainId", "token", "amount",
                    "status", "error", "createdAt", "updatedAt"}
    /\ op.id = id
    /\ DataOf(op) = data

\* C23: with several execute_bridge calls in flight, whatever the order of
\* their ledger writes and of get_bridge_status reads, the record under the
\* operation id of a call that has written, and whose id no other call
\* shares, is the whole record that call wrote; and a read returns either
\* nothing, for an id not written yet, or a whole record that some call
\* wrote under that id, never a part of one.
C23_EachIdHoldsItsOwnWrite ==
    /\ \A e \in Executions :
           exec[e].wrote # <<>> /\ OwnId(e) =>
               /\ exec[e].operationId[1] \in DOMAIN operations
               /\ RecordHolds(operations[exec[e].operationId[1]],
                              exec[e].operationId[1], exec[e].wrote[1])
    /\ ledgerOp.kind = "get" =>
           IF ledgerOp.returned = <<>>
           THEN \A e \in Executions :
                    exec[e].wrote # <<>> => exec[e].operationId # <<ledgerOp.id>>
           ELSE \E e \in Executions :
                    /\ exec[e].wrote # <<>>
                    /\ exec[e].operationId = <<ledgerOp.id>>
                    /\ RecordHolds(ledgerOp.returned[1], ledgerOp.id, exec[e].wrote[1])

\* Both calls have written, one a completed and one a failed record, under
\* different ids, and the record of the call that wrote first has been read
\* after the other call's write.
C23_Witness ==
    /\ OwnId("e1")
    /\ exec["e1"].wrote # <<>> /\ exec["e2"].wrote # <<>>
    /\ exec["e1"].wrote[1].status = "completed"
    /\ exec["e2"].wrote[1].status = "failed"
    /\ operations[exec["e1"].operationId[1]].updatedAt
           < operations[exec["e2"].operationId[1]].updatedAt
    /\ ledgerOp.kind = "get"
    /\ ledgerOp.id = exec["e1"].operationId[1]
    /\ ledgerOp.returned = <<operations[exec["e1"].operationId[1]]>>

C27_SingletonKeepsFirstNetwork ==
    /\ service.instance # <<>> =>
           /\ service.instance[1].serial = 1
           /\ service.instance[1].network = service.first[1]
    /\ service.last.call = "getNexusService" => service.last.returned = 1

\* The first call asked for mainnet, a later one for testnet, and the
\* service returned is the mainnet one.
C27_Witness ==
    /\ service.first = <<"mainnet">>
    /\ service.last.call = "getNexusService"
    /\ service.last.network = "testnet"
    /\ service.last.returned = 1
    /\ service.instance[1].network = "mainnet"

\* C25: the network mode of a tool call is the call's `network` argument
\* when one is given and NETWORK_MODE otherwise: get_chains answers with
\* that mode and with the chains of that mode.
C25_NetworkArgumentOverrides ==
    chainsAnswer.asked # None =>
        LET mode == IF chainsAnswer.asked = Undefined THEN config.NETWORK_MODE
                    ELSE chainsAnswer.asked
        IN  /\ chainsAnswer.networkMode = mode
            /\ chainsAnswer.chains = getSupportedChains(mode = "testnet")

(***************************************************************************)
(* Properties of what a caller gets to see of the key.                     *)
(***************************************************************************)
\* The keys the servers of the two runs hold.
KeysInUse == {PrivateKey(e) : e \in Executions} \ {Undefined}

\* The strings a ledger record carries.
RecordStrings(op) == {op.txHash, op.token, op.status, op.error}

\* What call e was given and what its surroundings answered: the request,
\* the clock and random part of its id, how initialize ended, the allowance
\* read, the engine's result, and the outbound calls with how each ended.
Surroundings(e) ==
    [req |-> exec[e].req, operationId |-> exec[e].operationId,
     swallowed |-> exec[e].swallowed, allowance |-> exec[e].allowance,
     engine |-> exec[e].engine, calls |-> exec[e].calls]

\* C26: the signing key is not exposed: no response of execute_bridge or
\* get_bridge_status and no ledger record carries the key, and two runs
\* with different keys that are given the same request and the same answers
\* by their surroundings return the same response and write the same
\* record (so they can differ only in what the surroundings derive from
\* the key: address, signatures, transaction hashes).
C26_KeyNotExposed ==
    /\ \A e \in Executions :
           exec[e].response # <<>> => exec[e].response[1].error \notin KeysInUse
    /\ \A id \in DOMAIN operations : RecordStrings(operations[id]) \cap KeysInUse = {}
    /\ ledgerOp.kind = "get" /\ ledgerOp.returned # <<>> =>
           RecordStrings(ledgerOp.returned[1]) \cap KeysInUse = {}
    /\ \A e1, e2 \in Executions :
           /\ exec[e1].pc = "done" /\ exec[e2].pc = "done"
           /\ Surroundings(e1) = Surroundings(e2)
           => /\ exec[e1].response = exec[e2].response
              /\ exec[e1].wrote = exec[e2].wrote

\* Two runs with different keys, the same request and the same answers
\* have both ended in the catch block, and their record has been read.
C26_Witness ==
    /\ PrivateKey("e1") # PrivateKey("e2")
    /\ IsKey(PrivateKey("e1")) /\ IsKey(PrivateKey("e2"))
    /\ exec["e1"].pc = "done" /\ exec["e2"].pc = "done"
    /\ Surroundings("e1") = Surroundings("e2")
    /\ exec["e1"].caught # <<>>
    /\ exec["e1"].wrote # <<>>
    /\ ledgerOp.kind = "get"
    /\ ledgerOp.returned # <<>>
    /\ DataOf(ledgerOp.returned[1]) = exec["e2"].wrote[1]

(***************************************************************************)
(* Properties of the pre-approval and of the recorded amount.              *)
(***************************************************************************)
\* C28: in an execution whose allowance read (made only when the source
\* chain has a vault) returned less than twice the raw amount, exactly one
\* approval is submitted: its spender is the vault of the source chain, it
\* is sent on the source chain and its amount is 2^256 - 1; no execution
\* submits a second one, also when the approval or the wait for its
\* receipt throws, and none is submitted otherwise.
C28_OneMaxApprovalToSourceVault ==
    \A e \in Executions :
        /\ Len(exec[e].approvals) <= 1
        /\ Len(exec[e].approvals) = Cardinality(Positions(e, "approve"))
        /\ (/\ exec[e].allowance # <<>>
            /\ exec[e].allowance[1] < 2 * exec[e].rawAmount[1])
           <=> Len(exec[e].approvals) = 1
        /\ exec[e].approvals # <<>> =>
              /\ exec[e].req[1].fromChainId \in VAULT_CONTRACTS(isTestnet)
              /\ exec[e].approvals[1].spender
                     = VaultAddress(isTestnet, exec[e].req[1].fromChainId)[1]
              /\ exec[e].approvals[1].chainId = exec[e].req[1].fromChainId
              /\ AddSmall(exec[e].approvals[1].amount, 1) = ShiftLeft(<<1>>, 256)
        /\ (Called(e, "approve threw") \/ Called(e, "waitForTransactionReceipt threw"))
           => exec[e].pc = "done" /\ Len(exec[e].approvals) = 1

\* An execution read an allowance one short of twice the amount, submitted
\* its approval to the vault of Base Sepolia, and ended when that threw.
C28_Witness ==
    \E e \in Executions :
        /\ exec[e].allowance # <<>>
        /\ exec[e].allowance[1] = 2 * exec[e].rawAmount[1] - 1
        /\ exec[e].approvals # <<>>
        /\ exec[e].approvals[1].spender = "0xa7458040272226378397c3036eda862d60c3b307"
        /\ Called(e, "approve threw")
        /\ exec[e].pc = "done"

\* C30: every ledger record execute_bridge writes, on the completed path
\* and on every failed path, has as its amount the decimal string of the
\* raw integer units of the requested amount, never the amount as typed.
C30_RecordedAmountIsRaw ==
    \A e \in Executions :
        exec[e].wrote # <<>> =>
            LET raw == RawAmount(exec[e].req[1].amount, TokenConfig(exec[e].tokenUpper)[1].decimals)
            IN  /\ raw # <<>>
                /\ exec[e].wrote[1].amount = ToString10(raw[1])
                /\ HasRecord(e) => RecordOf(e).amount = ToString10(raw[1])

(***************************************************************************)
(* Properties of operation ids, retries and the allowance read.            *)
(***************************************************************************)
\* C31: operation ids are never reused: any two calls of execute_bridge
\* that have generated their id, also two that do so at the same clock
\* reading, have different ids, so the record under the id of a call that
\* has written is the record that call wrote.
C31_IdsNeverReused ==
    \A e \in Executions :
        exec[e].operationId # <<>> =>
            /\ \A other \in Executions \ {e} : exec[other].operationId # exec[e].operationId
            /\ exec[e].wrote # <<>> => DataOf(RecordOf(e)) = exec[e].wrote[1]

\* The chain ids some adapter of the process has registered at runtime.
RegisteredAtRuntime == UNION {providers[e].added : e \in Executions}

\* C32: a chain registered at runtime stays registered for the lifetime of
\* the process: once a registration request for an id has succeeded, every
\* later switch request to that id succeeds, also when it is made of the
\* adapter of another execute_bridge call.
C32_RegisteredChainStaysSwitchable ==
    [][\A e \in Executions, s \in SwitchChainIdStrings :
          ProviderSwitch(e, s) /\ ParseInt16(s) \in RegisteredAtRuntime
              => providers'[e].result.ok]_vars

\* The network steps of execute_bridge that can fail, and the log entry of
\* the failure of each.
NetworkFailures == {"allowance threw", "approve threw", "waitForTransactionReceipt threw"}

C34_AllowanceReadBeforeTransfer ==
    \A e \in Executions :
        Called(e, "sdk.bridge") =>
            /\ exec[e].allowance # <<>>
            /\ \E i \in Positions(e, "allowance") :
                   \A j \in Positions(e, "sdk.bridge") : i < j

\* C35: an approval is submitted only in a call whose engine initialised:
\* when NexusService.initialize failed, the call submits no approval, and it
\* ends with a failed record in the ledger.
C35_NoApprovalWithoutEngine ==
    \A e \in Executions :
        exec[e].swallowed # <<>> =>
            /\ ~Called(e, "approve")
            /\ exec[e].approvals = <<>>
            /\ exec[e].pc = "done" => HasRecord(e) /\ RecordOf(e).status = "failed"

(***************************************************************************)
(* Properties of the records execute_bridge and reportBridgeStatus leave.  *)
(***************************************************************************)
\* What a step of execute_bridge may do to the ledger.
OneTerminalRecord ==
    /\ \A id \in DOMAIN operations' : operations'[id].status \in {"completed", "failed"}
    /\ \A e \in Executions :
           /\ exec'[e].pc \notin {"idle", "done"} => exec'[e].wrote = <<>>
           /\ exec'[e].pc \notin {"idle", "done"} /\ OwnId(e)' =>
                  exec'[e].operationId[1] \notin DOMAIN operations'
           /\ exec'[e].pc = "done" /\ exec'[e].operationId # <<>> =>
                  /\ Len(exec'[e].wrote) = 1
                  /\ exec'[e].operationId[1] \in DOMAIN operations'
           /\ exec[e].pc # "done" /\ exec'[e].pc = "done" /\ exec'[e].operationId # <<>> =>
                  RecordHolds(operations'[exec'[e].operationId[1]],
                              exec'[e].operationId[1], exec'[e].wrote[1])
           /\ exec[e].pc = "done" => exec'[e].wrote = exec[e].wrote
    /\ operations' # operations =>
           \E e \in Executions :
               /\ exec[e].pc # "done" /\ exec'[e].pc = "done"
               /\ exec'[e].caught # <<>> \/ exec'[e].engine # <<>>
               /\ DOMAIN operations' = DOMAIN operations \cup {exec'[e].operationId[1]}
               /\ \A id \in DOMAIN operations \ {exec'[e].operationId[1]} :
                      operations'[id] = operations[id]

\* C36: a call of execute_bridge that passed validation writes exactly one
\* record, under its own operation id and with status completed or failed:
\* no record is ever pending, a call in flight has written nothing, the
\* ledger changes only in the step in which the engine's call has returned
\* or an error has been caught, and a call that has returned writes no more.
C36_ExactlyOneTerminalRecord == [][OneTerminalRecord]_vars

\* A call that read the allowance, approved and waited has returned with a
\* completed record under its id.
C36_Witness ==
    \E e \in Executions :
        /\ exec[e].pc = "done"
        /\ Called(e, "receipt")
        /\ exec[e].engine # <<>>
        /\ HasRecord(e)
        /\ RecordOf(e).status = "completed"
        /\ DOMAIN operations = {exec[e].operationId[1]}

\* C37: the status of a record never goes back from terminal to pending:
\* once an id holds a record with status completed or failed, no call of
\* reportBridgeStatus leaves that id pending, and none replaces a transaction
\* hash that is known by the empty one.
C37_TerminalStatusIsFinal ==
    [][\A id \in DOMAIN operations :
          operations[id].status \in {"completed", "failed"} =>
              /\ operations'[id].status # "pending"
              /\ operations[id].txHash # "" => operations'[id].txHash # ""]_vars

(***************************************************************************)
(* What the requests other than a successful switch leave alone.           *)
(***************************************************************************)
\* The step changes neither the pointer nor the registry, and delivers no
\* event.
SessionStateUntouched ==
    /\ currentChainId' = currentChainId
    /\ chainMap' = chainMap
    /\ emitted' = <<>>

\* C38: (a step that leaves the subscriptions as they are is the request
\* lastReq names, or removes a handler that is not subscribed.)
\* Requests other than a successful chain switch leave the session
\* state of the adapter alone: account queries, chain-id queries, refused
\* switches and passed-through requests change neither the pointer nor the
\* registry and deliver no event; a registration leaves the pointer alone,
\* delivers no event, keeps every entry of the registry and adds at most
\* one.
C38_OnlySwitchMovesThePointer ==
    [][ listeners' = listeners =>
            /\ lastReq'.method \notin {SwitchMethod, "wallet_addEthereumChain"} =>
                   SessionStateUntouched
            /\ lastReq'.method = SwitchMethod /\ ~result'.ok => SessionStateUntouched
            /\ lastReq'.method = "wallet_addEthereumChain" =>
                   /\ currentChainId' = currentChainId
                   /\ emitted' = <<>>
                   /\ DOMAIN chainMap \subseteq DOMAIN chainMap'
                   /\ \A k \in DOMAIN chainMap : chainMap'[k] = chainMap[k]
                   /\ Cardinality(DOMAIN chainMap' \ DOMAIN chainMap) <= 1 ]_vars

\* With a subscriber to each event and the pointer moved by an earlier
\* switch, a switch to a chain that is not registered has just been refused.
C38_Witness ==
    /\ lastReq.method = SwitchMethod
    /\ ~result.ok
    /\ switchedTo # <<>>
    /\ currentChainId = switchedTo[1]
    /\ currentChainId # chains[1].id
    /\ listeners["chainChanged"] # <<>>
    /\ listeners["accountsChanged"] # <<>>

(***************************************************************************)
(* Properties of getMultiChainBalances.                                    *)
(***************************************************************************)
NextBalances ==
    \/ \E testnet \in BOOLEAN : GetMultiChainBalances(testnet)
    \/ \E c \in BALANCE_VIEM_CHAINS : ReadResolves(c, BalanceRead)
    \/ \E c \in FailingChains : ReadFails(c)
    \/ BalancesReturn

BalancesStart == IdleBridge /\ InitLedger /\ IdleAdapter

SpecBalances == BalancesStart /\ [][NextBalances]_vars

\* The pairs (supported chain with a client, token configured on it).
PairsToRead(testnet) ==
    LET cs == getSupportedChains(testnet)
    IN  {<<cs[i], SUPPORTED_TOKENS[j].symbol>> :
            <<i, j>> \in {p \in (DOMAIN cs) \X (DOMAIN SUPPORTED_TOKENS) :
                            /\ cs[p[1]] \in BALANCE_VIEM_CHAINS
                            /\ cs[p[1]] \in SUPPORTED_TOKENS[p[2]].addresses}}

IsDecimalAmount(s) ==
    /\ ~ParseFloat(s).nan
    /\ \A j \in 1..Len(s) : IsDecimalDigit(s[j]) \/ s[j] = "."
    /\ Cardinality({j \in 1..Len(s) : s[j] = "."}) <= 1

\* The integers nearest to digits / 10^scale * 10^decimals: one integer, or
\* the two neighbours of a value that lies halfway between them.
NearestUnits(digits, scale, decimals) ==
    IF scale <= decimals
    THEN {TimesPow10(BigOfDigits(digits), decimals - scale)}
    ELSE LET halves == DivPow10(MulSmall(BigOfDigits(digits), 2), scale - decimals)
             floor  == DivSmall(halves.q, 2)
         IN  IF floor.r = 0 THEN {floor.q}
             ELSE IF ~halves.exact THEN {AddSmall(floor.q, 1)}
             ELSE {floor.q, AddSmall(floor.q, 1)}

\* C12: the raw amount of a quote is the amount times 10^decimals rounded to
\* the nearest integer unit, for every decimal amount.
C12_RawAmountIsNearestUnit ==
    \A i \in DOMAIN quote.body :
        LET q == quote.body[i]
            parsed == ParseFloat(q.amount)
        IN  IsDecimalAmount(q.amount)
            => q.rawAmount \in {DigitsOfBig(u) :
                                  u \in NearestUnits(parsed.digits, parsed.scale, q.decimals)}

\* The same statement for amounts of at most six fraction digits below
\* 2^32 tokens, where the double arithmetic is exact enough.
C12_SmallAmountsAreExact ==
    \A i \in DOMAIN quote.body :
        LET q == quote.body[i]
            parsed == ParseFloat(q.amount)
        IN  /\ IsDecimalAmount(q.amount)
            /\ parsed.scale <= q.decimals
            /\ Len(parsed.digits) - parsed.scale <= 9
            => q.rawAmount \in {DigitsOfBig(u) :
                                  u \in NearestUnits(parsed.digits, parsed.scale, q.decimals)}

====
